---- MODULE Spec2Model ----
(***************************************************************************)
(* Finite-field Diffie-Hellman module of LibTomCrypt (src/pk/dh): key      *)
(* generation, key agreement, packet export/import, DH-ES encryption of a  *)
(* short key and ElGamal signatures over a digest.                         *)
(*                                                                         *)
(* A bignum is modelled by its integer value, a byte string by a sequence  *)
(* of 0..255, a hexadecimal string by a sequence of digits 0..15.  The     *)
(* groups are small safe-prime groups, so that every value of the group    *)
(* and every exponent the PRNG can return is enumerated.                   *)
(***************************************************************************)
EXTENDS Integers, Sequences, FiniteSets, TLC

VARIABLES key, res, call

vars == <<key, res, call>>

(***************************************************************************)
(* Bounds of the model.                                                    *)
(***************************************************************************)
\* dh_groupsize_to_keysize is called with group sizes up to MaxGroupsize
MaxGroupsize == 1030
\* the PRNG returns buffers whose big-endian value is in 0..MaxX
MaxX == 5
\* a key generation makes at most MaxDraws PRNG reads that are rejected
MaxDraws == 2
\* output buffers have a capacity in 0..MaxCap
MaxCap == 2
\* the capacity of the large buffer a caller passes to dh_export
ExportCap == 24
\* the capacity of the large buffer a caller passes to dh_encrypt_key
CipherCap == 16
\* the capacity of the large buffer a caller passes to dh_sign_hash
SigCap == 10

(***************************************************************************)
(* Error codes and key kinds (tomcrypt.h).                                 *)
(***************************************************************************)
CRYPT_OK == "CRYPT_OK"
CRYPT_MEM == "CRYPT_MEM"
CRYPT_INVALID_ARG == "CRYPT_INVALID_ARG"
CRYPT_INVALID_KEYSIZE == "CRYPT_INVALID_KEYSIZE"
CRYPT_INVALID_PACKET == "CRYPT_INVALID_PACKET"
CRYPT_INVALID_PRNG == "CRYPT_INVALID_PRNG"
CRYPT_INVALID_HASH == "CRYPT_INVALID_HASH"
CRYPT_ERROR_READPRNG == "CRYPT_ERROR_READPRNG"
CRYPT_BUFFER_OVERFLOW == "CRYPT_BUFFER_OVERFLOW"
CRYPT_PK_NOT_PRIVATE == "CRYPT_PK_NOT_PRIVATE"
CRYPT_PK_TYPE_MISMATCH == "CRYPT_PK_TYPE_MISMATCH"
CRYPT_PK_INVALID_TYPE == "CRYPT_PK_INVALID_TYPE"

PK_PUBLIC == 0
PK_PRIVATE == 1

\* a null bignum handle, and a handle whose bignum has been cleared
NULL == -1
Cleared == -2
\* a handle mp_clear was called on while it held no bignum: one that was
\* never acquired, or one that was released before
Miscleared == -3
\* a byte of a buffer the callee has not written
Unwritten == -1
\* the PRNG returned fewer bytes than asked
ShortRead == -1

(***************************************************************************)
(* The bignum backend (ltc_mp): values are integers.                       *)
(***************************************************************************)
RECURSIVE ToBytes(_)
\* mp_to_unsigned_bin: minimal-length unsigned big-endian, zero is empty
ToBytes(n) == IF n = 0 THEN <<>> ELSE Append(ToBytes(n \div 256), n % 256)

RECURSIVE FromBytes(_)
\* mp_read_unsigned_bin
FromBytes(s) ==
    IF s = <<>> THEN 0
    ELSE FromBytes(SubSeq(s, 1, Len(s) - 1)) * 256 + s[Len(s)]

mp_unsigned_bin_size(n) == Len(ToBytes(n))

RECURSIVE ToHexDigits(_)
ToHexDigits(n) == IF n = 0 THEN <<>> ELSE Append(ToHexDigits(n \div 16), n % 16)

\* mp_tohex: the digits of n, most significant first, "0" for zero
mp_tohex(n) == IF n = 0 THEN <<0>> ELSE ToHexDigits(n)

RECURSIVE mp_read_radix(_)
\* mp_read_radix(.., 16)
mp_read_radix(h) ==
    IF h = <<>> THEN 0
    ELSE mp_read_radix(SubSeq(h, 1, Len(h) - 1)) * 16 + h[Len(h)]

RECURSIVE mp_exptmod(_, _, _)
\* mp_exptmod(b, e, m) for e >= 0, m > 0: b^e mod m
mp_exptmod(b, e, m) ==
    IF e = 0 THEN 1 % m
    ELSE LET h == mp_exptmod(b, e \div 2, m)
             s == (h * h) % m
         IN  IF e % 2 = 1 THEN (s * (b % m)) % m ELSE s

\* mp_invmod(a, m) exists iff some c in 0..m-1 has a*c = 1 (mod m)
HasInverse(a, m) == \E c \in 0..(m - 1) : (a * c) % m = 1 % m
mp_invmod(a, m) == CHOOSE c \in 0..(m - 1) : (a * c) % m = 1 % m

(***************************************************************************)
(* The heap buffers and the temporary bignums of a call.  Each is in one   *)
(* of the states                                                           *)
(*   "unallocated"  the call did not reach its allocation                  *)
(*   "null"         the allocation failed: the pointer is NULL             *)
(*   "clean"        allocated, holding nothing secret                      *)
(*   "secret"       allocated, holding PRNG output, a shared secret or a   *)
(*                  key derived from one                                   *)
(*   "freed"        released once, while clean                             *)
(*   "freed_secret" released once, while secret                            *)
(*   "freed_twice"  released when it was released already                  *)
(*   "misfreed"     released when it was never allocated                   *)
(*   "null_used"    written through while NULL                             *)
(* and a call returns the set of the pairs <<name, state>> of its own.     *)
(***************************************************************************)
XMALLOC(ok) == IF ok THEN "clean" ELSE "null"

\* the call stores secret bytes in the buffer b
Fill(b) ==
    IF b = "null" THEN "null_used"
    ELSE IF b = "clean" THEN "secret"
    ELSE b

\* the call stores bytes that are no secret in the buffer b
Store(b) == IF b = "null" THEN "null_used" ELSE b

zeromem(b) ==
    IF b = "null" THEN "null_used"
    ELSE IF b = "secret" THEN "clean"
    ELSE b

\* XFREE(NULL) does nothing
XFREE(b) ==
    CASE b = "clean" -> "freed"
      [] b = "secret" -> "freed_secret"
      [] b \in {"freed", "freed_secret", "freed_twice"} -> "freed_twice"
      [] b = "unallocated" -> "misfreed"
      [] OTHER -> b

\* mp_clear, or one place in mp_clear_multi, of a temporary bignum
mp_clear_tmp(b) ==
    CASE b = "clean" -> "freed"
      [] b \in {"freed", "freed_twice"} -> "freed_twice"
      [] b \in {"unallocated", "null"} -> "misfreed"
      [] OTHER -> b

\* the default build does not define LTC_CLEAN_STACK
LTC_CLEAN_STACK == FALSE

(***************************************************************************)
(* Key objects.                                                            *)
(***************************************************************************)
Slots == {"usera", "userb"}

\* a dh_key no constructor has touched
NoKey == [st |-> "none", by |-> "", type |-> PK_PUBLIC, prime |-> NULL,
          base |-> NULL, x |-> NULL, y |-> NULL]

\* what a constructor leaves behind after mp_clear_multi on its error path
FailedKey(type) == [st |-> "failed", by |-> "", type |-> type, prime |-> Cleared,
                    base |-> Cleared, x |-> Cleared, y |-> Cleared]

\* mp_clear on the handle h of a key
mp_clear(h) == IF h >= 0 THEN Cleared ELSE Miscleared

RECURSIVE mp_clear_multi(_, _)
\* mp_clear_multi(k.hs[1], k.hs[2], ..., NULL): the list of arguments ends
\* at the first NULL one
mp_clear_multi(k, hs) ==
    IF hs = <<>> \/ k[Head(hs)] = NULL THEN k
    ELSE mp_clear_multi([k EXCEPT ![Head(hs)] = mp_clear(@)], Tail(hs))

\* a key whose constructor has reached its generation loop
BuildingKey(type, prime, base) ==
    [st |-> "building", by |-> "", type |-> type, prime |-> prime,
     base |-> base, x |-> 0, y |-> 0]

\* a key a constructor returned with CRYPT_OK; by names the constructor
LiveKey(by, type, prime, base, x, y) ==
    [st |-> "ok", by |-> by, type |-> type, prime |-> prime, base |-> base,
     x |-> x, y |-> y]

(***************************************************************************)
(* The group catalog and the key-size policy.                              *)
(***************************************************************************)
\* ltc_dh_sets: (size, prime, base), closed by an entry of size 0; the
\* primes are safe primes and each base has order (p-1)/2
ltc_dh_sets ==
    << [size |-> 1, prime |-> mp_tohex(23), base |-> mp_tohex(2)],
       [size |-> 2, prime |-> mp_tohex(263), base |-> mp_tohex(2)],
       [size |-> 0, prime |-> <<>>, base |-> <<>>] >>

\* groups a caller supplies to dh_make_key_ex: safe primes; the base 2
\* modulo 11 has order p-1, so that g^x reaches p-1
ExternalGroups ==
    { [prime |-> mp_tohex(11), base |-> mp_tohex(2)],
      [prime |-> mp_tohex(23), base |-> mp_tohex(2)] }

\* the policy with "<" for "<=" at the upper end of every range
dh_groupsize_to_keysize_Strict(groupsize) ==
    IF groupsize <= 0 THEN 0
    ELSE IF groupsize < 192 THEN 30
    ELSE IF groupsize < 256 THEN 40
    ELSE IF groupsize < 384 THEN 52
    ELSE IF groupsize < 512 THEN 60
    ELSE IF groupsize < 768 THEN 67
    ELSE IF groupsize < 1024 THEN 77
    ELSE 0

\* dh.c 56-85: dh_groupsize_to_keysize
dh_groupsize_to_keysize(groupsize) ==
    IF groupsize <= 0 THEN 0
    ELSE IF groupsize <= 192 THEN 30
    ELSE IF groupsize <= 256 THEN 40
    ELSE IF groupsize <= 384 THEN 52
    ELSE IF groupsize <= 512 THEN 60
    ELSE IF groupsize <= 768 THEN 67
    ELSE IF groupsize <= 1024 THEN 77
    ELSE 0

(***************************************************************************)
(* Public-value validation.                                                *)
(***************************************************************************)
\* dh_check_pubkey(key): mp_init of p-1 may fail; then accept iff
\* y > 1 and y < p-1
dh_check_pubkey(k, fault) ==
    IF fault = "check_mp_init" THEN CRYPT_MEM
    ELSE IF k.y > 1 /\ k.y < k.prime - 1 THEN CRYPT_OK
    ELSE CRYPT_INVALID_ARG

\* the loop condition with "y < 1" for "y <= 1": it lets y = 1 through
LoopAgainR1_AcceptsOne(y, p_minus1) == ~(y < p_minus1) \/ ~(y >= 1)

\* a loop condition that holds for every candidate
LoopAgainR1_Always(y, p_minus1) == TRUE

\* dh.c 147: the loop condition of dh_make_key_ex, "y <= 1 OR y >= p-1"
LoopAgainR1(y, p_minus1) == ~(y < p_minus1) \/ ~(y > 1)

\* the test with strict comparisons the other way: it lets 1 and p-1 through
RejectPeer_AcceptsEnds(y, tmp) == y > tmp \/ y < 1

\* dh.c 362: dh_shared_secret rejects a peer value y <= 1 or y >= p-1
RejectPeer(y, tmp) == ~(y < tmp) \/ ~(y > 1)

(***************************************************************************)
(* Key generation.  A generator runs its entry code, then its loop, one    *)
(* PRNG read per iteration, then returns.  err = "LOOP" says that the code *)
(* is at the loop; fault names the step of the backend that fails in this  *)
(* part of the call ("none": no step fails; "prng_is_valid": the caller    *)
(* passed the index of no registered PRNG).                                *)
(***************************************************************************)
\* dh.c 96-134: dh_make_key_ex up to its loop, the revision with p-1 inline
dh_make_key_ex_R1_entry(prime_hex, base_hex, k, fault) ==
    LET none == {<<"buf", "unallocated">>, <<"p_minus1", "unallocated">>}
        freemp(buf) == {<<"buf", buf>>, <<"p_minus1", mp_clear_tmp("clean")>>}
    IN  IF fault = "prng_is_valid"
        THEN [err |-> CRYPT_INVALID_PRNG, key |-> k, heap |-> none]
        ELSE IF fault = "mp_init_multi"
        THEN [err |-> CRYPT_MEM, key |-> k, heap |-> none]
        ELSE IF fault = "mp_read_radix"
        THEN [err |-> CRYPT_MEM, key |-> FailedKey(k.type),
              heap |-> freemp("unallocated")]
        ELSE LET base == mp_read_radix(base_hex)
                 prime == mp_read_radix(prime_hex)
                 keysize == dh_groupsize_to_keysize(mp_unsigned_bin_size(prime))
             IN  IF keysize = 0
                 THEN [err |-> CRYPT_INVALID_KEYSIZE, key |-> FailedKey(k.type),
                       heap |-> freemp("unallocated")]
                 ELSE IF fault = "XMALLOC"
                 THEN [err |-> CRYPT_MEM, key |-> FailedKey(k.type),
                       heap |-> freemp(XMALLOC(FALSE))]
                 ELSE [err |-> "LOOP", key |-> BuildingKey(k.type, prime, base),
                       heap |-> {<<"buf", XMALLOC(TRUE)>>,
                                 <<"p_minus1", "clean">>}]

\* dh.c 136-160: one iteration of the loop of dh_make_key_ex, on the value
\* d the PRNG returns, and the return that follows the loop
dh_make_key_ex_R1_loop(k, d, fault) ==
    LET buf == Fill(XMALLOC(TRUE))
        freebuf == {<<"buf", XFREE(zeromem(buf))>>,
                    <<"p_minus1", mp_clear_tmp("clean")>>}
    IN  IF d = ShortRead
        THEN [err |-> CRYPT_ERROR_READPRNG, key |-> FailedKey(k.type),
              heap |-> freebuf]
        ELSE IF fault = "mp_exptmod"
        THEN [err |-> CRYPT_MEM, key |-> FailedKey(k.type), heap |-> freebuf]
        ELSE LET y == mp_exptmod(k.base, d, k.prime)
             IN  IF LoopAgainR1(y, k.prime - 1)
                 THEN [err |-> "LOOP", key |-> [k EXCEPT !.x = d, !.y = y],
                       heap |-> {<<"buf", buf>>, <<"p_minus1", "clean">>}]
                 ELSE [err |-> CRYPT_OK,
                       key |-> LiveKey("generated", PK_PRIVATE, k.prime,
                                       k.base, d, y),
                       heap |-> {<<"buf", buf>>,
                                 <<"p_minus1", mp_clear_tmp("clean")>>}]

\* the search with ">=" for ">": it steps over the entry of the size asked for
CatalogIndex_SkipsEqual(groupsize) ==
    CHOOSE i \in 1..Len(ltc_dh_sets) :
        /\ ~(groupsize >= ltc_dh_sets[i].size /\ ltc_dh_sets[i].size # 0)
        /\ \A j \in 1..(i - 1) :
               groupsize >= ltc_dh_sets[j].size /\ ltc_dh_sets[j].size # 0

\* the catalog entry the search of dh_make_key stops at (dh.c 174,
\* dh_make_key.c 121)
CatalogIndex(groupsize) ==
    CHOOSE i \in 1..Len(ltc_dh_sets) :
        /\ ~(groupsize > ltc_dh_sets[i].size /\ ltc_dh_sets[i].size # 0)
        /\ \A j \in 1..(i - 1) :
               groupsize > ltc_dh_sets[j].size /\ ltc_dh_sets[j].size # 0

\* dh.c 170-178: dh_make_key up to the loop of dh_make_key_ex
dh_make_key_R1_entry(groupsize, k, fault) ==
    LET i == CatalogIndex(groupsize)
    IN  IF ltc_dh_sets[i].size = 0
        THEN [err |-> CRYPT_INVALID_KEYSIZE, key |-> k,
              heap |-> {<<"buf", "unallocated">>,
                        <<"p_minus1", "unallocated">>}]
        ELSE dh_make_key_ex_R1_entry(ltc_dh_sets[i].prime, ltc_dh_sets[i].base,
                                     k, fault)

\* dh_make_key.c 14-52: dh_make_key_internal up to its loop
dh_make_key_internal_entry(prime, base, k, fault) ==
    LET none == {<<"buf", "unallocated">>}
    IN  IF fault = "prng_is_valid"
        THEN [err |-> CRYPT_INVALID_PRNG, key |-> k, heap |-> none]
        ELSE IF fault = "mp_init_multi"
        THEN [err |-> CRYPT_MEM, key |-> k, heap |-> none]
        ELSE IF fault = "mp_copy"
        THEN [err |-> CRYPT_MEM, key |-> FailedKey(k.type), heap |-> none]
        ELSE LET keysize == dh_groupsize_to_keysize(mp_unsigned_bin_size(prime))
             IN  IF keysize = 0
                 THEN [err |-> CRYPT_INVALID_KEYSIZE, key |-> FailedKey(k.type),
                       heap |-> none]
                 ELSE IF fault = "XMALLOC"
                 THEN [err |-> CRYPT_MEM, key |-> FailedKey(k.type),
                       heap |-> {<<"buf", XMALLOC(FALSE)>>}]
                 ELSE [err |-> "LOOP",
                       key |-> BuildingKey(PK_PRIVATE, prime, base),
                       heap |-> {<<"buf", XMALLOC(TRUE)>>}]

\* dh_make_key.c 53-78: one iteration of the loop of dh_make_key_internal
\* and the return that follows the loop
dh_make_key_internal_loop(k, d, fault) ==
    LET buf == Fill(XMALLOC(TRUE))
        freebuf == {<<"buf", XFREE(zeromem(buf))>>}
    IN  IF d = ShortRead
        THEN [err |-> CRYPT_ERROR_READPRNG, key |-> FailedKey(k.type),
              heap |-> freebuf]
        ELSE IF fault = "mp_exptmod"
        THEN [err |-> CRYPT_MEM, key |-> FailedKey(k.type), heap |-> freebuf]
        ELSE LET y == mp_exptmod(k.base, d, k.prime)
                 c == [k EXCEPT !.x = d, !.y = y]
             IN  IF dh_check_pubkey(c, fault) # CRYPT_OK
                 THEN [err |-> "LOOP", key |-> c, heap |-> {<<"buf", buf>>}]
                 ELSE [err |-> CRYPT_OK,
                       key |-> LiveKey("generated", k.type, k.prime, k.base,
                                       d, y),
                       heap |-> {<<"buf", buf>>}]

\* dh_make_key.c 89-100: dh_make_key_ex up to the loop
dh_make_key_ex_entry(prime_hex, base_hex, k, fault) ==
    IF fault = "ex_mp_init_multi" \/ fault = "mp_read_radix"
    THEN [err |-> CRYPT_MEM, key |-> k, heap |-> {<<"buf", "unallocated">>}]
    ELSE dh_make_key_internal_entry(mp_read_radix(prime_hex),
                                    mp_read_radix(base_hex), k, fault)

\* dh_make_key.c 115-125: dh_make_key up to the loop (groupsize > 0 is
\* the caller's duty)
dh_make_key_entry(groupsize, k, fault) ==
    LET i == CatalogIndex(groupsize)
    IN  IF ltc_dh_sets[i].size = 0
        THEN [err |-> CRYPT_INVALID_KEYSIZE, key |-> k,
              heap |-> {<<"buf", "unallocated">>}]
        ELSE dh_make_key_ex_entry(ltc_dh_sets[i].prime, ltc_dh_sets[i].base,
                                  k, fault)

(***************************************************************************)
(* Key agreement.                                                          *)
(***************************************************************************)
\* a fresh buffer of the given capacity
Buffer(cap) == [i \in 1..cap |-> Unwritten]

\* what mp_to_unsigned_bin leaves in a buffer: the bytes, then what was there
WriteBytes(out, bytes) == bytes \o SubSeq(out, Len(bytes) + 1, Len(out))

\* the comparison of the primes alone
SameGroup_PrimeOnly(private_key, public_key) ==
    private_key.prime = public_key.prime

\* dh.c 349-350: "same DH group?"
SameGroup(private_key, public_key) ==
    private_key.prime = public_key.prime /\ private_key.base = public_key.base

\* the exponentiation of the key's own y instead of the peer's
SecretValue_OwnY(private_key, public_key) ==
    mp_exptmod(private_key.y, private_key.x, private_key.prime)

\* dh.c 368: y^x mod p
SecretValue(private_key, public_key) ==
    mp_exptmod(public_key.y, private_key.x, private_key.prime)

\* dh.c 331-388: dh_shared_secret; out is the caller's buffer, outlen its
\* capacity on entry
dh_shared_secret(private_key, public_key, out, outlen, fault) ==
    LET none == {<<"tmp", "unallocated">>}
        error == {<<"tmp", mp_clear_tmp("clean")>>}
    IN  IF private_key.type # PK_PRIVATE
        THEN [err |-> CRYPT_PK_NOT_PRIVATE, out |-> out, outlen |-> outlen,
              heap |-> none]
        ELSE IF ~SameGroup(private_key, public_key)
        THEN [err |-> CRYPT_PK_TYPE_MISMATCH, out |-> out, outlen |-> outlen,
              heap |-> none]
        ELSE IF fault = "mp_init"
        THEN [err |-> CRYPT_MEM, out |-> out, outlen |-> outlen,
              heap |-> {<<"tmp", "null">>}]
        ELSE IF RejectPeer(public_key.y, private_key.prime - 1)
        THEN [err |-> CRYPT_INVALID_ARG, out |-> out, outlen |-> outlen,
              heap |-> error]
        ELSE IF fault = "mp_exptmod"
        THEN [err |-> CRYPT_MEM, out |-> out, outlen |-> outlen,
              heap |-> error]
        ELSE LET tmp == SecretValue(private_key, public_key)
                 x == mp_unsigned_bin_size(tmp)
             IN  IF outlen < x
                 THEN [err |-> CRYPT_BUFFER_OVERFLOW, out |-> out,
                       outlen |-> x, heap |-> error]
                 ELSE [err |-> CRYPT_OK,
                       out |-> WriteBytes(out, ToBytes(tmp)), outlen |-> x,
                       heap |-> error]

\* dh.c 184-203: the handles dh_free passes to mp_clear, in its order
dh_free_clears(k) ==
    SelectSeq(<<"base", "prime", "x", "y">>, LAMBDA h : k[h] # NULL)

\* dh_free_KeepsX: dh_free without the key->x = NULL of line 196
dh_free_KeepsX(k) ==
    [k EXCEPT !.st = "freed", !.by = "", !.base = NULL, !.prime = NULL,
              !.x = IF @ # NULL THEN mp_clear(@) ELSE @, !.y = NULL]

\* dh.c 184-203: dh_free
dh_free(k) ==
    [k EXCEPT !.st = "freed", !.by = "", !.base = NULL, !.prime = NULL,
              !.x = NULL, !.y = NULL]

(***************************************************************************)
(* The packet format of dh_export and dh_import.                           *)
(***************************************************************************)
PACKET_SIZE == 4
PACKET_SECT_DH == 1
PACKET_SUB_KEY == 0
\* the library version packet_store_header writes
CRYPT == 279

\* the buffer out with bytes written at offset pos (counted from 0)
WriteAt(out, pos, bytes) ==
    [i \in 1..Len(out) |->
        IF pos < i /\ i <= pos + Len(bytes) THEN bytes[i - pos] ELSE out[i]]

\* a 32-bit length as the four bytes of a packet, and back
STORE32(z) == << (z \div 16777216) % 256, (z \div 65536) % 256,
                 (z \div 256) % 256, z % 256 >>
LOAD32(b) == ((b[1] * 256 + b[2]) * 256 + b[3]) * 256 + b[4]

\* packet_store_header and packet_valid_header
packet_store_header(out, section, subsection) ==
    WriteAt(out, 0, << CRYPT % 256, CRYPT \div 256, section, subsection >>)

packet_valid_header(src, section, subsection) ==
    IF CRYPT < src[1] + 256 * src[2] THEN CRYPT_INVALID_PACKET
    ELSE IF section # src[3] \/ subsection # src[4] THEN CRYPT_INVALID_PACKET
    ELSE CRYPT_OK

\* OUTPUT_BIGNUM(num, out, y, z): st is the state of dh_export before the
\* macro (err, out, the offset y), the result its state after
OUTPUT_BIGNUM(num, st, outlen) ==
    IF st.err # CRYPT_OK THEN st
    ELSE IF st.y + 4 > outlen THEN [st EXCEPT !.err = CRYPT_BUFFER_OVERFLOW]
    ELSE LET z == mp_unsigned_bin_size(num)
             o == WriteAt(st.out, st.y, STORE32(z))
         IN  IF st.y + 4 + z > outlen
             THEN [err |-> CRYPT_BUFFER_OVERFLOW, out |-> o, y |-> st.y + 4]
             ELSE [err |-> CRYPT_OK, out |-> WriteAt(o, st.y + 4, ToBytes(num)),
                   y |-> st.y + 4 + z]

\* INPUT_BIGNUM(num, in, x, y, inlen): st is the state of dh_import before
\* the macro (err, the offset y, the bignum read last)
INPUT_BIGNUM(in, st, inlen) ==
    IF st.err # CRYPT_OK THEN st
    ELSE IF st.y + 4 > inlen THEN [st EXCEPT !.err = CRYPT_INVALID_PACKET]
    ELSE LET x == LOAD32(SubSeq(in, st.y + 1, st.y + 4))
         IN  IF x + st.y + 4 > inlen
             THEN [st EXCEPT !.err = CRYPT_INVALID_PACKET, !.y = st.y + 4]
             ELSE [err |-> CRYPT_OK, y |-> st.y + 4 + x,
                   num |-> FromBytes(SubSeq(in, st.y + 5, st.y + 4 + x))]

\* dh.c 222-225: "can we store the static header?"
HeaderOverflow(outlen) == outlen < PACKET_SIZE + 2

\* the value written when the kind is not looked at
ExportedValue_AlwaysX(type, k) == k.x

\* dh.c 241-248: the value dh_export writes after the group
ExportedValue(type, k) == IF type = PK_PRIVATE THEN k.x ELSE k.y

\* dh.c 213-256: dh_export; out is the caller's buffer, outlen its capacity
dh_export(out, outlen, type, k) ==
    IF HeaderOverflow(outlen)
    THEN [err |-> CRYPT_BUFFER_OVERFLOW, out |-> out, outlen |-> outlen]
    ELSE IF type = PK_PRIVATE /\ k.type # PK_PRIVATE
    THEN [err |-> CRYPT_PK_NOT_PRIVATE, out |-> out, outlen |-> outlen]
    ELSE LET s0 == [err |-> CRYPT_OK, out |-> WriteAt(out, PACKET_SIZE, <<type>>),
                    y |-> PACKET_SIZE + 1]
             s1 == OUTPUT_BIGNUM(k.prime, s0, outlen)
             s2 == OUTPUT_BIGNUM(k.base, s1, outlen)
             s3 == OUTPUT_BIGNUM(ExportedValue(type, k), s2, outlen)
         IN  IF s3.err # CRYPT_OK
             THEN [err |-> s3.err, out |-> s3.out, outlen |-> outlen]
             ELSE [err |-> CRYPT_OK, outlen |-> s3.y,
                   out |-> packet_store_header(s3.out, PACKET_SECT_DH,
                                               PACKET_SUB_KEY)]

\* dh.c 304-315: the key dh_import builds from the kind byte and the three
\* bignums of the packet
ImportedKey(type, prime, base, v) ==
    IF type = PK_PRIVATE
    THEN LiveKey("dh_import", type, prime, base, v, mp_exptmod(base, v, prime))
    ELSE LiveKey("dh_import", type, prime, base, 0, v)

\* dh.c 265-321: dh_import
dh_import(in, inlen, k, fault) ==
    IF 2 + PACKET_SIZE > inlen THEN [err |-> CRYPT_INVALID_PACKET, key |-> k]
    ELSE IF packet_valid_header(in, PACKET_SECT_DH, PACKET_SUB_KEY) # CRYPT_OK
    THEN [err |-> CRYPT_INVALID_PACKET, key |-> k]
    ELSE IF fault = "mp_init_multi" THEN [err |-> CRYPT_MEM, key |-> k]
    ELSE LET type == in[PACKET_SIZE + 1]
             s0 == [err |-> CRYPT_OK, y |-> PACKET_SIZE + 1, num |-> 0]
             s1 == INPUT_BIGNUM(in, s0, inlen)
             s2 == INPUT_BIGNUM(in, s1, inlen)
             s3 == INPUT_BIGNUM(in, s2, inlen)
         IN  IF type # PK_PUBLIC /\ type # PK_PRIVATE
             THEN [err |-> CRYPT_PK_TYPE_MISMATCH, key |-> FailedKey(type)]
             ELSE IF s3.err # CRYPT_OK
             THEN [err |-> s3.err, key |-> FailedKey(type)]
             ELSE IF type = PK_PRIVATE /\ fault = "mp_exptmod"
             THEN [err |-> CRYPT_MEM, key |-> FailedKey(type)]
             ELSE [err |-> CRYPT_OK,
                   key |-> ImportedKey(type, s1.num, s2.num, s3.num)]

(***************************************************************************)
(* The tagged-sequence codec (der_encode_sequence_multi and                *)
(* der_decode_sequence): a SEQUENCE of INTEGER, OCTET STRING and OBJECT    *)
(* IDENTIFIER items, each a tag byte, a length and the content.            *)
(***************************************************************************)
LTC_ASN1_INTEGER == 2
LTC_ASN1_OCTET_STRING == 4
LTC_ASN1_OBJECT_IDENTIFIER == 6
\* the tag byte of a SEQUENCE
DerSequenceTag == 48

\* the length bytes of a content of n < 256 bytes
DerLength(n) == IF n < 128 THEN <<n>> ELSE <<129, n>>

\* INTEGER content: unsigned minimal big-endian, with a leading zero byte
\* when the high bit is set; zero is one zero byte
DerIntegerContent(v) ==
    LET b == ToBytes(v)
    IN  IF v = 0 THEN <<0>> ELSE IF b[1] >= 128 THEN <<0>> \o b ELSE b

\* OBJECT IDENTIFIER content: the first two words share a byte, every
\* other word (below 128) is a byte
DerOidContent(words) ==
    <<40 * words[1] + words[2]>> \o SubSeq(words, 3, Len(words))

DerOidWords(content) ==
    <<content[1] \div 40, content[1] % 40>> \o SubSeq(content, 2, Len(content))

\* one item [type, data] as bytes; data is a bignum, a byte string or the
\* words of an OID
DerItem(item) ==
    LET c == IF item.type = LTC_ASN1_INTEGER THEN DerIntegerContent(item.data)
             ELSE IF item.type = LTC_ASN1_OBJECT_IDENTIFIER
             THEN DerOidContent(item.data)
             ELSE item.data
    IN  <<item.type>> \o DerLength(Len(c)) \o c

RECURSIVE DerItems(_)
DerItems(list) ==
    IF list = <<>> THEN <<>> ELSE DerItem(Head(list)) \o DerItems(Tail(list))

\* der_encode_sequence_multi(out, outlen, list): a too-small buffer returns
\* CRYPT_BUFFER_OVERFLOW with the required length in the out-length
der_encode_sequence_multi(out, outlen, list) ==
    LET payload == DerItems(list)
        bytes == <<DerSequenceTag>> \o DerLength(Len(payload)) \o payload
    IN  IF outlen < Len(bytes)
        THEN [err |-> CRYPT_BUFFER_OVERFLOW, out |-> out, outlen |-> Len(bytes)]
        ELSE [err |-> CRYPT_OK, out |-> WriteBytes(out, bytes),
              outlen |-> Len(bytes)]

\* the length field at offset pos of in (counted from 0): [ok, len, next]
DerReadLength(in, pos, end) ==
    IF pos + 1 > end THEN [ok |-> FALSE, len |-> 0, next |-> pos]
    ELSE IF in[pos + 1] < 128
    THEN [ok |-> TRUE, len |-> in[pos + 1], next |-> pos + 1]
    ELSE IF in[pos + 1] = 129 /\ pos + 2 <= end
    THEN [ok |-> TRUE, len |-> in[pos + 2], next |-> pos + 2]
    ELSE [ok |-> FALSE, len |-> 0, next |-> pos]

\* the value of an INTEGER content: two's complement, big-endian
DerIntegerValue(c) ==
    IF c[1] >= 128 THEN FromBytes(c) - FromBytes(<<1>> \o [i \in 1..Len(c) |-> 0])
    ELSE FromBytes(c)

RECURSIVE DerDecodeItems(_, _, _, _, _)
\* the items of the list types ([type, size]: the kind expected and the
\* capacity of its destination) read from offset pos up to end
DerDecodeItems(in, pos, end, types, acc) ==
    IF types = <<>> THEN [err |-> CRYPT_OK, items |-> acc]
    ELSE IF pos + 1 > end \/ in[pos + 1] # Head(types).type
    THEN [err |-> CRYPT_INVALID_PACKET, items |-> acc]
    ELSE LET l == DerReadLength(in, pos + 1, end)
             c == SubSeq(in, l.next + 1, l.next + l.len)
             t == Head(types)
         IN  IF ~l.ok \/ l.next + l.len > end
             THEN [err |-> CRYPT_INVALID_PACKET, items |-> acc]
             ELSE IF t.type = LTC_ASN1_INTEGER /\ l.len = 0
             THEN [err |-> CRYPT_INVALID_PACKET, items |-> acc]
             ELSE IF t.type = LTC_ASN1_OBJECT_IDENTIFIER /\ l.len = 0
             THEN [err |-> CRYPT_INVALID_PACKET, items |-> acc]
             ELSE IF t.type # LTC_ASN1_INTEGER /\ l.len > t.size
             THEN [err |-> CRYPT_BUFFER_OVERFLOW, items |-> acc]
             ELSE LET d == IF t.type = LTC_ASN1_INTEGER THEN DerIntegerValue(c)
                           ELSE IF t.type = LTC_ASN1_OBJECT_IDENTIFIER
                           THEN DerOidWords(c)
                           ELSE c
                  IN  DerDecodeItems(in, l.next + l.len, end, Tail(types),
                                     Append(acc, [type |-> t.type, data |-> d,
                                                  size |-> l.len]))

\* der_decode_sequence(in, inlen, list, outlen): the first items of the
\* SEQUENCE at the start of in, as the list asks for them
der_decode_sequence(in, inlen, types) ==
    IF inlen < 2 \/ in[1] # DerSequenceTag
    THEN [err |-> CRYPT_INVALID_PACKET, items |-> <<>>]
    ELSE LET l == DerReadLength(in, 1, inlen)
         IN  IF ~l.ok \/ l.next + l.len > inlen
             THEN [err |-> CRYPT_INVALID_PACKET, items |-> <<>>]
             ELSE DerDecodeItems(in, l.next, l.next + l.len, types, <<>>)

(***************************************************************************)
(* The hash registry: hash_descriptor, hash_is_valid, find_hash_oid and    *)
(* hash_memory.                                                            *)
(***************************************************************************)
\* the size of the buffers DH-ES keeps the public value and the shared
\* secret in, and the largest digest of a hash
DH_BUF_SIZE == 8
MAXBLOCKSIZE == 3

hash_descriptor ==
    << [name |-> "h1", hashsize |-> 1, OID |-> <<1, 2, 5>>],
       [name |-> "h2", hashsize |-> 2, OID |-> <<1, 3, 14, 26>>] >>

hash_is_valid(hash) ==
    IF hash \in 1..Len(hash_descriptor) THEN CRYPT_OK ELSE CRYPT_INVALID_HASH

\* find_hash_oid: the index of the hash of that OID, -1 when there is none
find_hash_oid(oid) ==
    IF \E h \in 1..Len(hash_descriptor) : hash_descriptor[h].OID = oid
    THEN CHOOSE h \in 1..Len(hash_descriptor) : hash_descriptor[h].OID = oid
    ELSE -1

RECURSIVE HashState(_, _)
\* the state of a digest after the bytes of in
HashState(in, h) ==
    IF in = <<>> THEN h
    ELSE HashState(Tail(in), (h * 31 + Head(in) + 7) % 65521)

\* hash_memory(hash, in, inlen, out, outlen) with a valid hash: the digest
\* of hashsize bytes, CRYPT_BUFFER_OVERFLOW when out is smaller
hash_memory(hash, in, out, outlen) ==
    LET n == hash_descriptor[hash].hashsize
        h == HashState(in, 1 + hash)
        d == [i \in 1..n |-> ((h \div 256) * i + h + 17 * i) % 256]
    IN  IF outlen < n
        THEN [err |-> CRYPT_BUFFER_OVERFLOW, out |-> out, outlen |-> n]
        ELSE [err |-> CRYPT_OK, out |-> WriteBytes(out, d), outlen |-> n]

(***************************************************************************)
(* Raw import and export of one value of a key.                            *)
(***************************************************************************)
\* dh_import_raw.c 24-65
dh_import_raw(in, inlen, type, prime_hex, base_hex, k, fault) ==
    IF fault = "mp_init_multi"
    THEN \* the first mp_init fails: x is NULL, the other handles are what
         \* the caller's key object held, and all go to mp_clear_multi
         [err |-> CRYPT_MEM,
          key |-> [mp_clear_multi([k EXCEPT !.x = NULL],
                                  <<"prime", "base", "y", "x">>)
                     EXCEPT !.st = "failed", !.by = ""]]
    ELSE IF fault = "mp_read_radix"
    THEN [err |-> CRYPT_MEM, key |-> FailedKey(k.type)]
    ELSE LET base == mp_read_radix(base_hex)
             prime == mp_read_radix(prime_hex)
             v == FromBytes(SubSeq(in, 1, inlen))
             c == IF type = PK_PRIVATE
                  THEN LiveKey("dh_import_raw", PK_PRIVATE, prime, base, v,
                               mp_exptmod(base, v, prime))
                  ELSE LiveKey("dh_import_raw", PK_PUBLIC, prime, base, NULL, v)
         IN  IF type = PK_PRIVATE /\ fault = "raw_mp_exptmod"
             THEN [err |-> CRYPT_MEM, key |-> FailedKey(k.type)]
             ELSE IF dh_check_pubkey(c, fault) # CRYPT_OK
             THEN [err |-> dh_check_pubkey(c, fault),
                   key |-> [mp_clear_multi(c, <<"prime", "base", "y", "x">>)
                              EXCEPT !.st = "failed", !.by = ""]]
             ELSE [err |-> CRYPT_OK, key |-> c]

\* dh_export_raw: the minimal big-endian bytes of x or y
dh_export_raw(out, outlen, type, k) ==
    IF type = PK_PRIVATE /\ k.type # PK_PRIVATE
    THEN [err |-> CRYPT_PK_NOT_PRIVATE, out |-> out, outlen |-> outlen]
    ELSE LET v == IF type = PK_PRIVATE THEN k.x ELSE k.y
             len == mp_unsigned_bin_size(v)
         IN  IF outlen < len
             THEN [err |-> CRYPT_BUFFER_OVERFLOW, out |-> out, outlen |-> len]
             ELSE [err |-> CRYPT_OK, out |-> WriteBytes(out, ToBytes(v)),
                   outlen |-> len]

(***************************************************************************)
(* DH-ES: dh_encrypt_key and dh_decrypt_key.                               *)
(***************************************************************************)
RECURSIVE XorByte(_, _)
\* a ^ b on bytes
XorByte(a, b) ==
    IF a = 0 THEN b
    ELSE IF b = 0 THEN a
    ELSE ((a + b) % 2) + 2 * XorByte(a \div 2, b \div 2)

\* the three buffers dh_encrypt_key allocates (dh_encrypt_key.c 56-58)
EncryptBuffers == {"pub_expt", "dh_shared", "skey"}

\* dh_encrypt_key.c 117-126: the exit of dh_encrypt_key, for the states the
\* ephemeral key and the three buffers are in when it is reached
dh_encrypt_key_LBL_ERR(pubkey, pub_expt, dh_shared, skey) ==
    LET clean(b) == IF LTC_CLEAN_STACK THEN zeromem(b) ELSE b
    IN  { <<"pubkey", pubkey>>,
          <<"skey", XFREE(clean(skey))>>,
          <<"dh_shared", XFREE(clean(dh_shared))>>,
          <<"pub_expt", XFREE(clean(pub_expt))>> }

\* dh_encrypt_key.c 26-86: dh_encrypt_key up to the loop of the
\* dh_make_key_ex it calls (rev: which revision of it the build links)
\* failed: the allocations that fail, not empty iff fault = "enc_XMALLOC"
dh_encrypt_key_entry(inlen, hash, k, rev, fault, failed) ==
    LET none == {<<"pubkey", "unallocated">>} \cup
                { <<b, "unallocated">> : b \in EncryptBuffers }
    IN  IF fault = "prng_is_valid"
        THEN [err |-> CRYPT_INVALID_PRNG, key |-> NoKey, heap |-> none]
        ELSE IF hash_is_valid(hash) # CRYPT_OK
        THEN [err |-> hash_is_valid(hash), key |-> NoKey, heap |-> none]
        ELSE IF inlen > hash_descriptor[hash].hashsize
        THEN [err |-> CRYPT_INVALID_HASH, key |-> NoKey, heap |-> none]
        ELSE IF failed # {}
        THEN [err |-> CRYPT_MEM, key |-> NoKey,
              heap |-> {<<"pubkey", "unallocated">>} \cup
                       { <<b, IF XMALLOC(b \notin failed) # "null"
                              THEN XFREE(XMALLOC(b \notin failed))
                              ELSE XMALLOC(b \notin failed)>> :
                           b \in EncryptBuffers }]
        ELSE IF \/ mp_unsigned_bin_size(k.prime) * 2 + 1 > DH_BUF_SIZE
                \/ mp_unsigned_bin_size(k.base) * 2 + 1 > DH_BUF_SIZE
        THEN [err |-> CRYPT_MEM, key |-> NoKey,
              heap |-> dh_encrypt_key_LBL_ERR("unallocated", "clean", "clean",
                                              "clean")]
        ELSE LET prime_hex == mp_tohex(k.prime)
                 base_hex == mp_tohex(k.base)
                 g == IF rev = "R1"
                      THEN dh_make_key_ex_R1_entry(prime_hex, base_hex, NoKey,
                                                   fault)
                      ELSE dh_make_key_ex_entry(prime_hex, base_hex, NoKey,
                                                fault)
             IN  IF g.err = "LOOP" THEN g
                 ELSE [err |-> g.err, key |-> g.key,
                       heap |-> g.heap \cup
                           dh_encrypt_key_LBL_ERR("unallocated", Store("clean"),
                                                  Store("clean"), "clean")]

\* dh_encrypt_key.c 107-109: skey[x] ^= in[x] for x < inlen
EncryptedBytes(skey, in, inlen) ==
    [x \in 1..inlen |-> XorByte(skey[x], in[x])]

\* dh_encrypt_key.c 87-126: dh_encrypt_key after dh_make_key_ex returned
\* the ephemeral key pubkey
dh_encrypt_key_finish(in, inlen, out, outlen, hash, k, pubkey, fault) ==
    LET e == dh_export_raw(Buffer(DH_BUF_SIZE), DH_BUF_SIZE, PK_PUBLIC, pubkey)
        s == dh_shared_secret(pubkey, k, Buffer(DH_BUF_SIZE), DH_BUF_SIZE, fault)
        h == hash_memory(hash, SubSeq(s.out, 1, s.outlen), Buffer(MAXBLOCKSIZE),
                         MAXBLOCKSIZE)
        hex == Store("clean")
        freed == mp_clear_tmp("clean")
        der == der_encode_sequence_multi(out, outlen,
                 << [type |-> LTC_ASN1_OBJECT_IDENTIFIER,
                     data |-> hash_descriptor[hash].OID],
                    [type |-> LTC_ASN1_OCTET_STRING,
                     data |-> SubSeq(e.out, 1, e.outlen)],
                    [type |-> LTC_ASN1_OCTET_STRING,
                     data |-> EncryptedBytes(h.out, in, inlen)] >>)
    IN  IF e.err # CRYPT_OK
        THEN [err |-> e.err, out |-> out, outlen |-> outlen,
              heap |-> dh_encrypt_key_LBL_ERR(freed, hex, hex, "clean")]
        ELSE IF s.err # CRYPT_OK
        THEN [err |-> s.err, out |-> out, outlen |-> outlen,
              heap |-> s.heap \cup
                       dh_encrypt_key_LBL_ERR(freed, Store(hex), hex, "clean")]
        ELSE IF h.err # CRYPT_OK
        THEN [err |-> h.err, out |-> out, outlen |-> outlen,
              heap |-> s.heap \cup
                       dh_encrypt_key_LBL_ERR(freed, Store(hex), Fill(hex),
                                              "clean")]
        ELSE [err |-> der.err, out |-> der.out, outlen |-> der.outlen,
              heap |-> s.heap \cup
                       dh_encrypt_key_LBL_ERR(freed, Store(hex), Fill(hex),
                                              Fill("clean"))]

\* the agreement with the two keys in the other order
DecryptSecret_Swapped(k, pubkey, fault) ==
    dh_shared_secret(pubkey, k, Buffer(DH_BUF_SIZE), DH_BUF_SIZE, fault)

\* dh_decrypt_key.c 94-95: the shared secret of the recipient's key and
\* the imported ephemeral public key
DecryptSecret(k, pubkey, fault) ==
    dh_shared_secret(k, pubkey, Buffer(DH_BUF_SIZE), DH_BUF_SIZE, fault)

MIN(a, b) == IF a < b THEN a ELSE b

\* dh_decrypt_key without the test of the kind of the key
DecryptKeyCheck_Skipped(k) == CRYPT_OK

\* dh_decrypt_key.c 39-42: the key must be private
DecryptKeyCheck(k) ==
    IF k.type # PK_PRIVATE THEN CRYPT_PK_NOT_PRIVATE ELSE CRYPT_OK

\* the five buffers dh_decrypt_key allocates (dh_decrypt_key.c 55-59)
DecryptBuffers == {"prime_hex", "base_hex", "pub_expt", "shared_secret", "skey"}

\* dh_decrypt_key.c 60-77: the branch taken when shared_secret or skey is
\* NULL; h maps each buffer to its state after the allocations
dh_decrypt_key_nomem(h) ==
    LET ifnonnull(b, free) == IF b # "null" THEN free ELSE b
        skey1 == ifnonnull(h["skey"], XFREE(h["skey"]))
        skey2 == IF h["prime_hex"] # "null" THEN XFREE(skey1) ELSE skey1
        skey3 == IF h["base_hex"] # "null" THEN XFREE(skey2) ELSE skey2
    IN  { <<"pubkey", "unallocated">>,
          <<"shared_secret",
            ifnonnull(h["shared_secret"], XFREE(h["shared_secret"]))>>,
          <<"pub_expt", ifnonnull(h["pub_expt"], XFREE(h["pub_expt"]))>>,
          <<"skey", skey3>>,
          <<"prime_hex", h["prime_hex"]>>,
          <<"base_hex", h["base_hex"]>> }

\* dh_decrypt_key.c 129-140: the exit of dh_decrypt_key, for the states
\* the imported key and the five buffers are in when it is reached
dh_decrypt_key_LBL_ERR(pubkey, h) ==
    LET clean(b) == IF LTC_CLEAN_STACK THEN zeromem(b) ELSE b
    IN  { <<"pubkey", pubkey>>,
          <<"pub_expt", XFREE(clean(h["pub_expt"]))>>,
          <<"shared_secret", XFREE(clean(h["shared_secret"]))>>,
          <<"skey", XFREE(clean(h["skey"]))>>,
          <<"prime_hex", XFREE(h["prime_hex"])>>,
          <<"base_hex", XFREE(h["base_hex"])>> }

\* the process ends at a write through a NULL pointer
SIGSEGV == "SIGSEGV"

\* dh_decrypt_key.c 23-141; failed: the allocations that fail; traps: a
\* write through a NULL pointer ends the process (if not, the write is
\* lost and the call goes on)
dh_decrypt_key(in, inlen, out, outlen, k, fault, failed, traps) ==
    LET none == {<<"pubkey", "unallocated">>} \cup
                { <<b, "unallocated">> : b \in DecryptBuffers }
        ret(e, hp) == [err |-> e, out |-> out, outlen |-> outlen, heap |-> hp]
        d1 == der_decode_sequence(in, inlen,
                  << [type |-> LTC_ASN1_OBJECT_IDENTIFIER, size |-> 32] >>)
        hash == find_hash_oid(d1.items[1].data)
        h0 == [b \in DecryptBuffers |-> XMALLOC(b \notin failed)]
        d2 == der_decode_sequence(in, inlen,
                  << [type |-> LTC_ASN1_OBJECT_IDENTIFIER, size |-> 32],
                     [type |-> LTC_ASN1_OCTET_STRING, size |-> DH_BUF_SIZE] >>)
        decode == der_decode_sequence(in, inlen,
                  << [type |-> LTC_ASN1_OBJECT_IDENTIFIER, size |-> 32],
                     [type |-> LTC_ASN1_OCTET_STRING, size |-> DH_BUF_SIZE],
                     [type |-> LTC_ASN1_OCTET_STRING, size |-> MAXBLOCKSIZE] >>)
        \* the decoder stores the octet strings it has reached
        h1 == [h0 EXCEPT !["pub_expt"] = IF d2.err = CRYPT_OK THEN Store(@)
                                        ELSE @,
                         !["skey"] = IF decode.err = CRYPT_OK THEN Store(@)
                                     ELSE @]
        \* mp_tohex of the prime and of the base
        h2 == [h1 EXCEPT !["prime_hex"] = Store(@), !["base_hex"] = Store(@)]
        i == dh_import_raw(decode.items[2].data, decode.items[2].size, PK_PUBLIC,
                           mp_tohex(k.prime), mp_tohex(k.base), NoKey, fault)
        s == DecryptSecret(k, i.key, fault)
        h3 == [h2 EXCEPT !["shared_secret"] = Fill(@)]
        h == hash_memory(hash, SubSeq(s.out, 1, s.outlen), s.out,
                         MIN(DH_BUF_SIZE, MAXBLOCKSIZE))
        skey == decode.items[3].data
        size == decode.items[3].size
        freed == mp_clear_tmp("clean")
        nullused(hp) == \E b \in DecryptBuffers : hp[b] = "null_used"
        running(pubkey, hp) ==
            {<<"pubkey", pubkey>>} \cup { <<b, hp[b]>> : b \in DecryptBuffers }
    IN  IF DecryptKeyCheck(k) # CRYPT_OK THEN ret(DecryptKeyCheck(k), none)
        ELSE IF d1.err # CRYPT_OK THEN ret(d1.err, none)
        ELSE IF hash_is_valid(hash) # CRYPT_OK
        THEN ret(CRYPT_INVALID_PACKET, none)
        ELSE IF h0["shared_secret"] = "null" \/ h0["skey"] = "null"
        THEN ret(CRYPT_MEM, dh_decrypt_key_nomem(h0))
        ELSE IF nullused(h1) /\ traps THEN ret(SIGSEGV, running("unallocated", h1))
        ELSE IF decode.err # CRYPT_OK
        THEN ret(decode.err, dh_decrypt_key_LBL_ERR("unallocated", h1))
        ELSE IF nullused(h2) /\ traps THEN ret(SIGSEGV, running("unallocated", h2))
        ELSE IF h2["prime_hex"] = "null_used" \/ h2["base_hex"] = "null_used"
        THEN \* the LTC_ARGCHK of dh_import_raw
             ret(CRYPT_INVALID_ARG, dh_decrypt_key_LBL_ERR("unallocated", h2))
        ELSE IF i.err # CRYPT_OK
        THEN ret(i.err, dh_decrypt_key_LBL_ERR("unallocated", h2))
        ELSE IF s.err # CRYPT_OK
        THEN ret(s.err, s.heap \cup dh_decrypt_key_LBL_ERR(freed, h2))
        ELSE IF h.err # CRYPT_OK
        THEN ret(h.err, s.heap \cup dh_decrypt_key_LBL_ERR(freed, h3))
        ELSE IF size > h.outlen
        THEN ret(CRYPT_INVALID_PACKET,
                 s.heap \cup dh_decrypt_key_LBL_ERR(freed, h3))
        ELSE IF outlen < size
        THEN [err |-> CRYPT_BUFFER_OVERFLOW, out |-> out, outlen |-> size,
              heap |-> s.heap \cup dh_decrypt_key_LBL_ERR(freed, h3)]
        ELSE [err |-> CRYPT_OK, outlen |-> size,
              out |-> WriteBytes(out, [x \in 1..size |->
                                          XorByte(skey[x], h.out[x])]),
              heap |-> s.heap \cup dh_decrypt_key_LBL_ERR(freed, h3)]

(***************************************************************************)
(* ElGamal signatures: dh_sign_hash and dh_verify_hash.                    *)
(***************************************************************************)
\* b with M + xa for M - xa
SignatureB_Plus(m, a, x, kinv, p1) ==
    LET tmp == (a * x) % p1
        tmp2 == (m + tmp) % p1
    IN  (kinv * tmp2) % p1

\* dh_sign_hash.c 102-104: b = (M - xa)/k mod p1
SignatureB(m, a, x, kinv, p1) ==
    LET tmp == (a * x) % p1
        tmp2 == (m - tmp) % p1
    IN  (kinv * tmp2) % p1

\* dh_sign_hash.c 44-116; d is what the PRNG read returns
\* fault "XMALLOC": the allocation of buf, which the code does not test,
\* fails; ub: the undefined step of the call takes its harmful course (the
\* PRNG's write through the NULL buf ends the process, and if not is lost;
\* the pointers line 112 reads after a failed mp_init_multi, which nothing
\* has set, are not NULL)
dh_sign_hash(in, inlen, out, outlen, k, d, fault, ub) ==
    LET fail(e, hp) == [err |-> e, out |-> out, outlen |-> outlen, heap |-> hp]
        none == {<<"buf", "unallocated">>, <<"bignums", "unallocated">>}
        keysize == dh_groupsize_to_keysize(mp_unsigned_bin_size(k.prime))
        m == FromBytes(SubSeq(in, 1, inlen))
        p1 == (k.prime - 1) \div 2
        a == mp_exptmod(k.base, d, k.prime)
        buf == Fill(XMALLOC(fault # "XMALLOC"))
        LBL_ERR_1(bignums) == {<<"buf", XFREE(buf)>>, <<"bignums", bignums>>}
        LBL_ERR(bignums) == LBL_ERR_1(mp_clear_tmp(bignums))
        der == der_encode_sequence_multi(out, outlen,
                 << [type |-> LTC_ASN1_INTEGER, data |-> a],
                    [type |-> LTC_ASN1_INTEGER,
                     data |-> SignatureB(m, a, k.x, mp_invmod(d, p1), p1)] >>)
    IN  IF k.type # PK_PRIVATE THEN fail(CRYPT_PK_NOT_PRIVATE, none)
        ELSE IF fault = "prng_is_valid" THEN fail(CRYPT_INVALID_PRNG, none)
        ELSE IF keysize <= 0 THEN fail(CRYPT_PK_INVALID_TYPE, none)
        ELSE IF buf = "null_used" /\ ub
        THEN fail(SIGSEGV, {<<"buf", buf>>, <<"bignums", "unallocated">>})
        ELSE IF d = ShortRead
        THEN fail(CRYPT_ERROR_READPRNG, LBL_ERR_1("unallocated"))
        ELSE IF fault = "mp_init_multi"
        THEN fail(CRYPT_MEM, IF ub THEN LBL_ERR("unallocated")
                             ELSE LBL_ERR_1("unallocated"))
        ELSE IF fault = "mp_exptmod" THEN fail(CRYPT_MEM, LBL_ERR("clean"))
        ELSE IF ~HasInverse(d, p1)
        THEN fail(CRYPT_INVALID_ARG, LBL_ERR("clean"))
        ELSE [err |-> der.err, out |-> der.out, outlen |-> der.outlen,
              heap |-> LBL_ERR("clean")]

\* the comparison with g^M for the last byte of the digest only
SignatureHolds_LastByteOnly(k, a, b, m) ==
    (mp_exptmod(a, b, k.prime) * mp_exptmod(k.y, a, k.prime)) % k.prime
        = mp_exptmod(k.base, m % 256, k.prime)

\* the comparison with the exponents a and b exchanged
SignatureHolds_Swapped(k, a, b, m) ==
    (mp_exptmod(a, a, k.prime) * mp_exptmod(k.y, b, k.prime)) % k.prime
        = mp_exptmod(k.base, m, k.prime)

\* dh_verify_hash.c 56-64: y^a * a^b = g^M (mod p)
SignatureHolds(k, a, b, m) ==
    (mp_exptmod(a, b, k.prime) * mp_exptmod(k.y, a, k.prime)) % k.prime
        = mp_exptmod(k.base, m, k.prime)

\* dh_verify_hash.c 24-74
dh_verify_hash(sig, siglen, hash, hashlen, k, fault) ==
    LET dec == der_decode_sequence(sig, siglen,
                   << [type |-> LTC_ASN1_INTEGER, size |-> 1],
                      [type |-> LTC_ASN1_INTEGER, size |-> 1] >>)
        m == FromBytes(SubSeq(hash, 1, hashlen))
    IN  IF fault = "mp_init_multi" THEN [err |-> CRYPT_MEM, stat |-> 0]
        ELSE IF dec.err # CRYPT_OK THEN [err |-> dec.err, stat |-> 0]
        ELSE IF fault = "mp_exptmod" THEN [err |-> CRYPT_MEM, stat |-> 0]
        ELSE IF SignatureHolds(k, dec.items[1].data, dec.items[2].data, m)
        THEN [err |-> CRYPT_OK, stat |-> 1]
        ELSE [err |-> CRYPT_OK, stat |-> 0]

\* dh_make_key.c 136-153: dh_make_key_dhparam up to the loop of
\* dh_make_key_internal
dh_make_key_dhparam_entry(dhparam, dhparamlen, k, fault) ==
    LET dec == der_decode_sequence(dhparam, dhparamlen,
                   << [type |-> LTC_ASN1_INTEGER, size |-> 1],
                      [type |-> LTC_ASN1_INTEGER, size |-> 1] >>)
    IN  IF fault = "ex_mp_init_multi"
        THEN [err |-> CRYPT_MEM, key |-> k, heap |-> {<<"buf", "unallocated">>}]
        ELSE IF dec.err # CRYPT_OK
        THEN [err |-> dec.err, key |-> k, heap |-> {<<"buf", "unallocated">>}]
        ELSE dh_make_key_internal_entry(dec.items[1].data, dec.items[2].data,
                                        k, fault)

(***************************************************************************)
(* The state: the caller's key objects, the result of the last call that   *)
(* returned (its arguments, return value and output buffer), and the call  *)
(* in progress when a generator is in its loop.                            *)
(***************************************************************************)
\* heap: the buffers and temporary bignums of the call, as it left them;
\* rel: the handles dh_free released; draw: the last PRNG read of the call;
\* inp: the bytes the call read (a packet, a ciphertext, a signature), from:
\* the call whose whole output inp is; msg: the plaintext or the digest of
\* the call, msg0: the digest that was signed
NoRes == [op |-> "none", a |-> "", b |-> "", type |-> PK_PUBLIC, cap |-> 0,
          inp |-> <<>>, from |-> "", hash |-> 0, msg |-> <<>>, msg0 |-> <<>>,
          fault |-> "none", err |-> "", out |-> <<>>, outlen |-> 0, stat |-> 0,
          n |-> 0, rel |-> <<>>, draw |-> 0, heap |-> {}]

\* no call is in progress; pubkey is the ephemeral key of dh_encrypt_key
NoCall == [op |-> "none", rev |-> "", s |-> "", n |-> 0, pubkey |-> NoKey,
           msg |-> <<>>, hash |-> 0, cap |-> 0]

Init ==
    /\ key = [s \in Slots |-> NoKey]
    /\ res = NoRes
    /\ call = NoCall

Idle == call = NoCall

\* what one PRNG read returns: a short read, or a buffer of that value
Draws == {ShortRead} \cup (0..MaxX)

EntryFaults == {"none", "prng_is_valid", "mp_init_multi", "mp_read_radix",
                "mp_copy", "XMALLOC", "ex_mp_init_multi"}
LoopFaults == {"none", "mp_exptmod", "check_mp_init"}

\* a generator called on key object s for the group size groupsize (0 when
\* the caller names no size) has run its entry code with result r
EnterSized(op, rev, s, r, fault, groupsize) ==
    /\ key' = [key EXCEPT ![s] = r.key]
    /\ IF r.err = "LOOP"
       THEN /\ call' = [NoCall EXCEPT !.op = op, !.rev = rev, !.s = s,
                                      !.cap = groupsize]
            /\ res' = NoRes
       ELSE /\ call' = NoCall
            /\ res' = [NoRes EXCEPT !.op = op, !.a = s, !.fault = fault,
                                    !.err = r.err, !.cap = groupsize,
                                    !.heap = r.heap]

\* a generator called on key object s has run its entry code with result r
Enter(op, rev, s, r, fault) == EnterSized(op, rev, s, r, fault, 0)

MakeKey(s) ==
    /\ Idle /\ key[s].st # "ok"
    /\ \E groupsize \in 1..Len(ltc_dh_sets), fault \in EntryFaults :
          EnterSized("dh_make_key", "R2", s,
                     dh_make_key_entry(groupsize, key[s], fault), fault,
                     groupsize)

MakeKeyEx(s) ==
    /\ Idle /\ key[s].st # "ok"
    /\ \E grp \in ExternalGroups, fault \in EntryFaults :
          Enter("dh_make_key_ex", "R2", s,
                dh_make_key_ex_entry(grp.prime, grp.base, key[s], fault), fault)

MakeKeyR1(s) ==
    /\ Idle /\ key[s].st # "ok"
    /\ \E groupsize \in 0..Len(ltc_dh_sets), fault \in EntryFaults :
          EnterSized("dh_make_key", "R1", s,
                     dh_make_key_R1_entry(groupsize, key[s], fault), fault,
                     groupsize)

MakeKeyExR1(s) ==
    /\ Idle /\ key[s].st # "ok"
    /\ \E grp \in ExternalGroups, fault \in EntryFaults :
          Enter("dh_make_key_ex", "R1", s,
                dh_make_key_ex_R1_entry(grp.prime, grp.base, key[s], fault), fault)

\* the bytes a call returned in its output buffer
Output(r) == SubSeq(r.out, 1, r.outlen)

\* DHParameter ::= SEQUENCE { prime INTEGER, base INTEGER } as bytes
DhParam(prime, base) ==
    Output(der_encode_sequence_multi(Buffer(SigCap), SigCap,
               << [type |-> LTC_ASN1_INTEGER, data |-> prime],
                  [type |-> LTC_ASN1_INTEGER, data |-> base] >>))

\* the parameters a caller passes to dh_make_key_dhparam: those of the
\* groups of ExternalGroups, and a sequence cut short
DhParams ==
    { DhParam(mp_read_radix(grp.prime), mp_read_radix(grp.base)) :
        grp \in ExternalGroups }
    \cup { SubSeq(DhParam(23, 2), 1, 5) }

MakeKeyDhparam(s) ==
    /\ Idle /\ key[s].st # "ok"
    /\ \E dhparam \in DhParams, fault \in EntryFaults :
          Enter("dh_make_key_dhparam", "R2", s,
                dh_make_key_dhparam_entry(dhparam, Len(dhparam), key[s], fault),
                fault)

\* one iteration of the loop of the generator in progress: the PRNG
\* returns d; the generator loops again or returns
KeygenRead ==
    /\ call.op \in {"dh_make_key", "dh_make_key_ex", "dh_make_key_dhparam"}
    /\ \E d \in Draws, fault \in LoopFaults :
          LET s == call.s
              r == IF call.rev = "R1"
                   THEN dh_make_key_ex_R1_loop(key[s], d, fault)
                   ELSE dh_make_key_internal_loop(key[s], d, fault)
          IN  /\ r.err = "LOOP" => call.n < MaxDraws
              /\ key' = [key EXCEPT ![s] = r.key]
              /\ IF r.err = "LOOP"
                 THEN /\ call' = [call EXCEPT !.n = call.n + 1]
                      /\ res' = [NoRes EXCEPT !.fault = fault, !.draw = d]
                 ELSE /\ call' = NoCall
                      /\ res' = [NoRes EXCEPT !.op = call.op, !.a = s,
                                     !.fault = fault, !.err = r.err,
                                     !.n = call.n + 1, !.cap = call.cap,
                                     !.draw = d, !.heap = r.heap]

\* dh_free of a key a constructor returned, or of one dh_free has freed
Free(s) ==
    /\ Idle /\ key[s].st \in {"ok", "freed"}
    /\ key' = [key EXCEPT ![s] = dh_free(key[s])]
    /\ res' = [NoRes EXCEPT !.op = "dh_free", !.a = s,
                            !.rel = dh_free_clears(key[s])]
    /\ UNCHANGED call

SharedSecret(a, b) ==
    /\ Idle /\ key[a].st = "ok" /\ key[b].st = "ok"
    /\ \E cap \in 0..MaxCap, fault \in {"none", "mp_init", "mp_exptmod"} :
          LET r == dh_shared_secret(key[a], key[b], Buffer(cap), cap, fault)
          IN  res' = [NoRes EXCEPT !.op = "dh_shared_secret", !.a = a, !.b = b,
                         !.cap = cap, !.fault = fault, !.err = r.err,
                         !.out = r.out, !.outlen = r.outlen,
                         !.heap = r.heap]
    /\ UNCHANGED <<key, call>>

\* the capacities of the buffers a caller passes to dh_export
ExportCaps == {0, PACKET_SIZE + 1, PACKET_SIZE + 2, PACKET_SIZE + 8, ExportCap}

Export(a) ==
    /\ Idle /\ key[a].st = "ok"
    /\ \E cap \in ExportCaps, type \in {PK_PUBLIC, PK_PRIVATE} :
          LET r == dh_export(Buffer(cap), cap, type, key[a])
          IN  res' = [NoRes EXCEPT !.op = "dh_export", !.a = a, !.type = type,
                         !.cap = cap, !.err = r.err, !.out = r.out,
                         !.outlen = r.outlen]
    /\ UNCHANGED <<key, call>>

\* a packet a caller builds by hand: any kind byte, any three numbers
Packet(type, prime, base, v) ==
    LET k == LiveKey("", PK_PRIVATE, prime, base, v, v)
        q == dh_export(Buffer(ExportCap), ExportCap, PK_PUBLIC, k)
    IN  WriteAt(Output(q), PACKET_SIZE, <<type>>)

CraftedGroups == { <<23, 2>>, <<23, 5>> }
CraftedPackets ==
    { Packet(t, g[1], g[2], v) :
        t \in {PK_PUBLIC, PK_PRIVATE}, g \in CraftedGroups,
        v \in {0, 1, 3, 22, 23} }
    \cup { Packet(2, 23, 2, 3) }
    \cup { WriteAt(Packet(PK_PUBLIC, 23, 2, 3), 2, <<PACKET_SECT_DH + 1>>) }

\* dh_import of a packet built by hand
ImportCrafted(s) ==
    /\ Idle /\ key[s].st # "ok"
    /\ \E in \in CraftedPackets, fault \in {"none", "mp_init_multi", "mp_exptmod"} :
          LET r == dh_import(in, Len(in), key[s], fault)
          IN  /\ key' = [key EXCEPT ![s] = r.key]
              /\ res' = [NoRes EXCEPT !.op = "dh_import", !.a = s, !.inp = in,
                             !.fault = fault, !.err = r.err]
    /\ UNCHANGED call

\* dh_import of the first inlen bytes of the packet the last call, a
\* dh_export of key object res.a, returned
ImportExported(s) ==
    /\ Idle /\ key[s].st # "ok"
    /\ res.op = "dh_export" /\ res.err = CRYPT_OK
    /\ \E inlen \in {PACKET_SIZE + 1, res.outlen - 1, res.outlen},
          fault \in {"none", "mp_init_multi", "mp_exptmod"} :
          LET in == SubSeq(res.out, 1, inlen)
              r == dh_import(in, inlen, key[s], fault)
          IN  /\ key' = [key EXCEPT ![s] = r.key]
              /\ res' = [NoRes EXCEPT !.op = "dh_import", !.a = s, !.b = res.a,
                             !.type = res.type, !.cap = res.outlen,
                             !.inp = in, !.fault = fault, !.err = r.err]
    /\ UNCHANGED call

(***************************************************************************)
(* Spec: the generators of both revisions, key agreement and dh_free on    *)
(* two key objects.                                                        *)
(***************************************************************************)
Next ==
    \/ \E s \in Slots : MakeKey(s)
    \/ \E s \in Slots : MakeKeyEx(s)
    \/ \E s \in Slots : MakeKeyR1(s)
    \/ \E s \in Slots : MakeKeyExR1(s)
    \/ \E s \in Slots : MakeKeyDhparam(s)
    \/ KeygenRead
    \/ \E s \in Slots : Free(s)
    \/ \E a, b \in Slots : SharedSecret(a, b)

Spec == Init /\ [][Next]_vars

(***************************************************************************)
(* SpecPacket: usera holds generated keys of the catalog, userb holds keys *)
(* imported from packets, those dh_export wrote and those built by hand.   *)
(***************************************************************************)
NextPacket ==
    \/ MakeKey("usera")
    \/ KeygenRead
    \/ \E s \in Slots : Free(s)
    \/ \E a \in Slots : Export(a)
    \/ ImportExported("userb")
    \/ ImportCrafted("userb")
    \/ \E a, b \in Slots : SharedSecret(a, b)

SpecPacket == Init /\ [][NextPacket]_vars


(***************************************************************************)
(* SpecKeys: one key object, every constructor on it and dh_free of it.    *)
(***************************************************************************)
\* the values a caller passes to dh_import_raw
RawValues == {0, 1, 3, 22, 23}

\* dh_import_raw of the bytes of a value, as x or as y, in the group (23, 2)
ImportRaw(s) ==
    /\ Idle /\ key[s].st # "ok"
    /\ \E v \in RawValues, type \in {PK_PUBLIC, PK_PRIVATE},
          fault \in {"none", "mp_init_multi", "mp_read_radix", "raw_mp_exptmod",
                     "check_mp_init"} :
          LET in == ToBytes(v)
              r == dh_import_raw(in, Len(in), type, mp_tohex(23), mp_tohex(2),
                                 key[s], fault)
          IN  /\ key' = [key EXCEPT ![s] = r.key]
              /\ res' = [NoRes EXCEPT !.op = "dh_import_raw", !.a = s,
                             !.type = type, !.inp = in, !.fault = fault,
                             !.err = r.err]
    /\ UNCHANGED call

NextKeys ==
    \/ MakeKey("usera")
    \/ MakeKeyEx("usera")
    \/ MakeKeyR1("usera")
    \/ KeygenRead
    \/ ImportCrafted("usera")
    \/ ImportRaw("usera")
    \/ Free("usera")

SpecKeys == Init /\ [][NextKeys]_vars

(***************************************************************************)
(* SpecPolicy: dh_groupsize_to_keysize of every group size from -2 to      *)
(* MaxGroupsize.                                                           *)
(***************************************************************************)
GroupsizeToKeysize ==
    /\ Idle
    /\ \E groupsize \in (-2)..MaxGroupsize :
          res' = [NoRes EXCEPT !.op = "dh_groupsize_to_keysize",
                               !.n = groupsize,
                               !.outlen = dh_groupsize_to_keysize(groupsize)]
    /\ UNCHANGED <<key, call>>

NextPolicy == GroupsizeToKeysize

SpecPolicy == Init /\ [][NextPolicy]_vars

(***************************************************************************)
(* SpecES: one key object, dh_encrypt_key to it and dh_decrypt_key of the  *)
(* ciphertext with it.                                                     *)
(***************************************************************************)
\* the bytes of the plaintexts
PlainBytes == {1, 255}
Plaintexts ==
    {<<>>} \cup { <<b>> : b \in PlainBytes }
           \cup { <<b, c>> : b, c \in PlainBytes }
           \cup { <<1, 0, 255>> }

\* the capacities of the buffer a caller passes to dh_encrypt_key
CipherCaps == {0, CipherCap}

\* dh_encrypt_key for the key of object a: the code up to the loop of
\* dh_make_key_ex; every set of failing allocations is tried, for one
\* plaintext
Encrypt(a) ==
    /\ Idle /\ key[a].st = "ok"
    /\ \E in \in Plaintexts, hash \in 0..Len(hash_descriptor),
          cap \in CipherCaps, rev \in {"R1", "R2"},
          fault \in {"none", "prng_is_valid", "enc_XMALLOC"} :
          \E failed \in IF fault = "enc_XMALLOC"
                         THEN (SUBSET EncryptBuffers) \ {{}}
                         ELSE {{}} :
          LET r == dh_encrypt_key_entry(Len(in), hash, key[a], rev, fault,
                                        failed)
          IN  /\ fault = "enc_XMALLOC" =>
                    in = <<1>> /\ hash = 1 /\ cap = CipherCap /\ rev = "R2"
              /\ IF r.err = "LOOP"
                 THEN /\ call' = [NoCall EXCEPT !.op = "dh_encrypt_key",
                                     !.rev = rev, !.s = a, !.pubkey = r.key,
                                     !.msg = in, !.hash = hash, !.cap = cap]
                      /\ res' = NoRes
                 ELSE /\ call' = NoCall
                      /\ res' = [NoRes EXCEPT !.op = "dh_encrypt_key", !.a = a,
                                     !.msg = in, !.hash = hash, !.cap = cap,
                                     !.fault = fault, !.err = r.err,
                                     !.out = Buffer(cap), !.outlen = cap,
                                     !.heap = r.heap]
    /\ UNCHANGED key

\* one iteration of the loop of the dh_make_key_ex that dh_encrypt_key
\* called, and, when it returns, the rest of dh_encrypt_key
EncryptRead ==
    /\ call.op = "dh_encrypt_key"
    /\ \E d \in Draws, fault \in {"none", "mp_exptmod", "mp_init"} :
          LET r == IF call.rev = "R1"
                   THEN dh_make_key_ex_R1_loop(call.pubkey, d, fault)
                   ELSE dh_make_key_internal_loop(call.pubkey, d, fault)
              f == IF r.err = CRYPT_OK
                   THEN dh_encrypt_key_finish(call.msg, Len(call.msg),
                            Buffer(call.cap), call.cap, call.hash, key[call.s],
                            r.key, fault)
                   ELSE [err |-> r.err, out |-> Buffer(call.cap),
                         outlen |-> call.cap,
                         heap |-> dh_encrypt_key_LBL_ERR("unallocated",
                                      Store("clean"), Store("clean"), "clean")]
          IN  /\ r.err = "LOOP" => call.n < MaxDraws
              /\ IF r.err = "LOOP"
                 THEN /\ call' = [call EXCEPT !.n = call.n + 1, !.pubkey = r.key]
                      /\ res' = NoRes
                 ELSE /\ call' = NoCall
                      /\ res' = [NoRes EXCEPT !.op = "dh_encrypt_key",
                                     !.a = call.s, !.msg = call.msg,
                                     !.hash = call.hash, !.cap = call.cap,
                                     !.fault = fault, !.err = f.err,
                                     !.out = f.out, !.outlen = f.outlen,
                                     !.n = call.n + 1,
                                     !.heap = r.heap \cup f.heap]
    /\ UNCHANGED key

\* dh_decrypt_key, with the key of object a, of the first inlen bytes of
\* the ciphertext the last call, a dh_encrypt_key, returned
Decrypt(a) ==
    /\ Idle /\ key[a].st = "ok"
    /\ res.op = "dh_encrypt_key" /\ res.err = CRYPT_OK
    /\ \E inlen \in {res.outlen - 1, res.outlen}, cap \in 0..MaxCap,
          fault \in {"none", "dec_XMALLOC", "mp_init"} :
          LET in == SubSeq(res.out, 1, inlen)
              failed == IF fault = "dec_XMALLOC" THEN DecryptBuffers ELSE {}
              r == dh_decrypt_key(in, inlen, Buffer(cap), cap, key[a], fault,
                                  failed, TRUE)
          IN  res' = [NoRes EXCEPT !.op = "dh_decrypt_key", !.a = a, !.b = res.a,
                         !.inp = in, !.msg = res.msg, !.hash = res.hash,
                         !.from = IF inlen = res.outlen THEN "dh_encrypt_key"
                                  ELSE "",
                         !.cap = cap, !.fault = fault, !.err = r.err,
                         !.out = r.out, !.outlen = r.outlen,
                         !.heap = r.heap]
    /\ UNCHANGED <<key, call>>

NextES ==
    \/ MakeKey("usera")
    \/ KeygenRead
    \/ Free("usera")
    \/ Encrypt("usera")
    \/ EncryptRead
    \/ Decrypt("usera")

SpecES == Init /\ [][NextES]_vars

(***************************************************************************)
(* SpecLive: the generators of both revisions on one key object, with a    *)
(* fair PRNG: one that does not keep returning candidates the loop         *)
(* rejects, or, a loop in progress whose next read can be an accepted      *)
(* candidate does at some time get one (unless it has returned before).    *)
(***************************************************************************)
\* a PRNG read of a candidate the loop of the generator accepts
KeygenAccept == KeygenRead /\ res'.err = CRYPT_OK

NextLive ==
    \/ MakeKey("usera")
    \/ MakeKeyR1("usera")
    \/ KeygenRead
    \/ Free("usera")

SpecLive == Init /\ [][NextLive]_vars /\ WF_vars(KeygenAccept)

(***************************************************************************)
(* SpecDecrypt: one key object, generated or imported, and dh_decrypt_key  *)
(* with it of ciphertexts built by hand.                                   *)
(***************************************************************************)
\* the ciphertext of the hash, the ephemeral public value y and the
\* encrypted bytes c
Ciphertext(hash, y, c) ==
    Output(der_encode_sequence_multi(Buffer(CipherCap), CipherCap,
               << [type |-> LTC_ASN1_OBJECT_IDENTIFIER,
                   data |-> hash_descriptor[hash].OID],
                  [type |-> LTC_ASN1_OCTET_STRING, data |-> ToBytes(y)],
                  [type |-> LTC_ASN1_OCTET_STRING, data |-> c] >>))

\* the ephemeral public values of the ciphertexts built by hand
CraftedYs == {0, 1, 3, 22, 23, 262, 300}

CraftedCiphertexts ==
    { Ciphertext(1, y, <<7>>) : y \in CraftedYs }
    \cup { <<DerSequenceTag, 0>> }

\* dh_decrypt_key of a ciphertext built by hand; every set of failing
\* allocations is tried, for one ciphertext and the largest buffer
DecryptCrafted(a) ==
    /\ Idle /\ key[a].st = "ok"
    /\ \E in \in CraftedCiphertexts, cap \in {0, MaxCap},
          fault \in {"none", "mp_init", "dec_XMALLOC"} :
          \E failed \in IF fault = "dec_XMALLOC"
                         THEN (SUBSET DecryptBuffers) \ {{}}
                         ELSE {{}},
             traps \in BOOLEAN :
          LET r == dh_decrypt_key(in, Len(in), Buffer(cap), cap, key[a], fault,
                                  failed, traps)
          IN  /\ fault = "dec_XMALLOC" =>
                    cap = MaxCap /\ in = Ciphertext(1, 3, <<7>>)
              /\ fault # "dec_XMALLOC" => traps
              /\ res' = [NoRes EXCEPT !.op = "dh_decrypt_key", !.a = a,
                             !.inp = in, !.cap = cap, !.fault = fault,
                             !.err = r.err, !.out = r.out, !.outlen = r.outlen,
                             !.heap = r.heap]
    /\ UNCHANGED <<key, call>>

NextDecrypt ==
    \/ MakeKey("usera")
    \/ KeygenRead
    \/ ImportRaw("usera")
    \/ Free("usera")
    \/ DecryptCrafted("usera")

SpecDecrypt == Init /\ [][NextDecrypt]_vars

(***************************************************************************)
(* SpecSig: one key object, dh_sign_hash with it and dh_verify_hash of     *)
(* the signature, or of a signature built by hand, with it.                *)
(***************************************************************************)
\* the digests a caller signs
Digests == { <<5>>, <<200>>, <<3, 7>> }

\* d with bit number bit of byte number i flipped
FlipBit(d, i, bit) ==
    [d EXCEPT ![i] = XorByte(d[i], mp_exptmod(2, bit, 256))]

Flips(d) == { FlipBit(d, i, bit) : i \in 1..Len(d), bit \in 0..7 }

\* dh_sign_hash with the key of object a
Sign(a) ==
    /\ Idle /\ key[a].st = "ok"
    /\ \E in \in Digests, cap \in {SigCap - 7, SigCap}, d \in Draws,
          fault \in {"none", "prng_is_valid", "mp_init_multi", "XMALLOC"},
          ub \in BOOLEAN :
          LET r == dh_sign_hash(in, Len(in), Buffer(cap), cap, key[a], d, fault,
                                ub)
          IN  /\ fault \notin {"mp_init_multi", "XMALLOC"} => ub
              /\ fault = "XMALLOC" =>
                     in = <<5>> /\ cap = SigCap /\ d \in {ShortRead, 3}
              /\ res' = [NoRes EXCEPT !.op = "dh_sign_hash", !.a = a,
                             !.msg = in, !.cap = cap, !.fault = fault,
                             !.err = r.err, !.out = r.out, !.outlen = r.outlen,
                             !.heap = r.heap]
    /\ UNCHANGED <<key, call>>

\* dh_verify_hash, with the key of object a, of the signature the last
\* call, a dh_sign_hash, returned (or of all but its last byte), and of the
\* digest that was signed or one that differs from it in one bit
VerifySigned(a) ==
    /\ Idle /\ key[a].st = "ok"
    /\ res.op = "dh_sign_hash" /\ res.err = CRYPT_OK
    /\ \E hash \in {res.msg} \cup Flips(res.msg),
          v \in {"none", "mp_init_multi", "mp_exptmod", "short"} :
          LET siglen == IF v = "short" THEN res.outlen - 1 ELSE res.outlen
              fault == IF v = "short" THEN "none" ELSE v
              sig == SubSeq(res.out, 1, siglen)
              r == dh_verify_hash(sig, siglen, hash, Len(hash), key[a], fault)
          IN  res' = [NoRes EXCEPT !.op = "dh_verify_hash", !.a = a,
                         !.inp = sig, !.msg = hash, !.msg0 = res.msg,
                         !.from = IF v = "short" THEN "" ELSE "dh_sign_hash",
                         !.fault = fault, !.err = r.err, !.stat = r.stat]
    /\ UNCHANGED <<key, call>>

\* the bytes of SEQUENCE { a INTEGER, b INTEGER }
Signature(a, b) ==
    Output(der_encode_sequence_multi(Buffer(SigCap), SigCap,
               << [type |-> LTC_ASN1_INTEGER, data |-> a],
                  [type |-> LTC_ASN1_INTEGER, data |-> b] >>))

\* signatures a caller builds by hand: pairs of small and of out-of-range
\* numbers, a sequence cut short, a sequence of another kind of item
CraftedSignatures ==
    { Signature(a, b) : a \in {0, 1, 2, 9, 22, 300}, b \in {0, 1, 3} }
    \cup { SubSeq(Signature(2, 3), 1, 4), <<>> }
    \cup { Output(der_encode_sequence_multi(Buffer(SigCap), SigCap,
               << [type |-> LTC_ASN1_OCTET_STRING, data |-> <<2>>],
                  [type |-> LTC_ASN1_INTEGER, data |-> 3] >>)) }

\* dh_verify_hash of a signature built by hand
VerifyCrafted(a) ==
    /\ Idle /\ key[a].st = "ok"
    /\ \E sig \in CraftedSignatures, hash \in Digests,
          fault \in {"none", "mp_exptmod"} :
          LET r == dh_verify_hash(sig, Len(sig), hash, Len(hash), key[a], fault)
          IN  res' = [NoRes EXCEPT !.op = "dh_verify_hash", !.a = a,
                         !.inp = sig, !.msg = hash, !.fault = fault,
                         !.err = r.err, !.stat = r.stat]
    /\ UNCHANGED <<key, call>>

NextSig ==
    \/ MakeKey("usera")
    \/ MakeKeyEx("usera")
    \/ KeygenRead
    \/ Free("usera")
    \/ Sign("usera")
    \/ VerifySigned("usera")
    \/ VerifyCrafted("usera")

SpecSig == Init /\ [][NextSig]_vars

(***************************************************************************)
(* The claims.                                                             *)
(***************************************************************************)
RECURSIVE PowMod(_, _, _)
\* b^e mod m by e multiplications
PowMod(b, e, m) == IF e = 0 THEN 1 % m ELSE (b * PowMod(b, e - 1, m)) % m

\* a key a generator returned
Generated(k) == k.st = "ok" /\ k.by = "generated"

\* the last call was dh_shared_secret(key[a], key[b], ..)
Agreed(a, b) == res.op = "dh_shared_secret" /\ res.a = a /\ res.b = b

\* C1: for two generated keys A and B of one group and a buffer that holds
\* a value of the group, dh_shared_secret(A, B) returns CRYPT_OK, and so
\* does dh_shared_secret(B, A), with the same length and the same bytes.
C1_AgreementCommutes ==
    \A a, b \in Slots :
        ( /\ Agreed(a, b) /\ res.fault = "none"
          /\ Generated(key[a]) /\ Generated(key[b])
          /\ key[a].prime = key[b].prime /\ key[a].base = key[b].base
          /\ res.cap >= mp_unsigned_bin_size(key[a].prime) )
        => /\ res.err = CRYPT_OK
           /\ LET r == dh_shared_secret(key[b], key[a], Buffer(res.cap), res.cap,
                                        "none")
              IN  /\ r.err = CRYPT_OK
                  /\ r.outlen = res.outlen
                  /\ Output(r) = Output(res)

\* two different generated keys of the 2-byte group agreed on a secret of
\* two bytes
C1_Witness ==
    /\ res.op = "dh_shared_secret" /\ res.err = CRYPT_OK /\ res.a # res.b
    /\ Generated(key[res.a]) /\ Generated(key[res.b])
    /\ key[res.a].x # key[res.b].x
    /\ res.outlen = 2

\* C2: dh_shared_secret with a private key and a peer of the same group
\* whose y is <= 1 or >= p-1 returns CRYPT_INVALID_ARG (CRYPT_MEM when
\* mp_init fails first) and writes neither the buffer nor the out-length.
C2_BadPeerRejected ==
    \A a, b \in Slots :
        ( /\ Agreed(a, b)
          /\ key[a].type = PK_PRIVATE
          /\ key[a].prime = key[b].prime /\ key[a].base = key[b].base
          /\ (key[b].y <= 1 \/ key[b].y >= key[a].prime - 1) )
        => /\ res.err = IF res.fault = "mp_init" THEN CRYPT_MEM
                        ELSE CRYPT_INVALID_ARG
           /\ res.out = Buffer(res.cap)
           /\ res.outlen = res.cap

\* a generated key met a peer with y = p-1 and a buffer large enough
C2_Witness ==
    /\ res.op = "dh_shared_secret" /\ res.err = CRYPT_INVALID_ARG
    /\ Generated(key[res.a])
    /\ key[res.b].y = key[res.a].prime - 1
    /\ res.cap = MaxCap

\* C3: dh_shared_secret with a key that is not private returns
\* CRYPT_PK_NOT_PRIVATE, whatever the groups are; with a private key and a
\* peer whose prime or base differs it returns CRYPT_PK_TYPE_MISMATCH,
\* whatever the peer's y, the buffer and the backend do; nothing is written.
C3_GroupMismatch ==
    \A a, b \in Slots :
        Agreed(a, b) =>
            /\ key[a].type # PK_PRIVATE => res.err = CRYPT_PK_NOT_PRIVATE
            /\ ( /\ key[a].type = PK_PRIVATE
                 /\ (key[a].prime # key[b].prime \/ key[a].base # key[b].base) )
               => /\ res.err = CRYPT_PK_TYPE_MISMATCH
                  /\ res.out = Buffer(res.cap)
                  /\ res.outlen = res.cap

\* a private key met a peer of the same prime and another base, whose y is
\* p-1, with an empty buffer
C3_Witness ==
    /\ res.op = "dh_shared_secret" /\ res.err = CRYPT_PK_TYPE_MISMATCH
    /\ key[res.a].prime = key[res.b].prime
    /\ key[res.b].y = key[res.b].prime - 1
    /\ res.cap = 0

\* C4: when dh_shared_secret, dh_export or dh_decrypt_key returns
\* CRYPT_BUFFER_OVERFLOW, the out-length it leaves is a capacity with which
\* the same call on the same inputs does not return CRYPT_BUFFER_OVERFLOW.
C4_OverflowReportsLength ==
    res.err = CRYPT_BUFFER_OVERFLOW =>
        /\ res.op = "dh_shared_secret" =>
              dh_shared_secret(key[res.a], key[res.b], Buffer(res.outlen),
                               res.outlen, "none").err # CRYPT_BUFFER_OVERFLOW
        /\ res.op = "dh_export" =>
              dh_export(Buffer(res.outlen), res.outlen, res.type,
                        key[res.a]).err # CRYPT_BUFFER_OVERFLOW
        /\ res.op = "dh_decrypt_key" =>
              dh_decrypt_key(res.inp, Len(res.inp), Buffer(res.outlen),
                             res.outlen, key[res.a], "none", {}, TRUE).err
                  # CRYPT_BUFFER_OVERFLOW

\* the last call was dh_import of the whole packet that
\* dh_export(.., PK_PUBLIC, key[res.b]) had just written
ImportedExportOf(k) ==
    /\ res.op = "dh_import" /\ res.b # "" /\ k = key[res.b]
    /\ res.type = PK_PUBLIC /\ Len(res.inp) = res.cap

\* C5: dh_import of the packet dh_export(k, PK_PUBLIC) wrote returns
\* CRYPT_OK (when the backend does not fail) with a public key of the same
\* p, g and y as k, and dh_shared_secret gives every private key A of the
\* group the same result with the imported key as with k.
C5_ExportImportRoundTrip ==
    \A s \in Slots :
        (ImportedExportOf(key[s]) /\ res.fault # "mp_init_multi")
        => /\ res.err = CRYPT_OK
           /\ LET k == key[s]
                  i == key[res.a]
              IN  /\ i.st = "ok" /\ i.type = PK_PUBLIC
                  /\ i.prime = k.prime /\ i.base = k.base /\ i.y = k.y
                  /\ \A x \in 1..MaxX, cap \in 0..MaxCap :
                        LET A == LiveKey("generated", PK_PRIVATE, k.prime, k.base,
                                         x, PowMod(k.base, x, k.prime))
                        IN  dh_shared_secret(A, i, Buffer(cap), cap, "none")
                              = dh_shared_secret(A, k, Buffer(cap), cap, "none")

\* the public packet of a generated key of the 2-byte group was imported
C5_Witness ==
    /\ res.op = "dh_import" /\ res.b # "" /\ res.type = PK_PUBLIC
    /\ Len(res.inp) = res.cap /\ res.err = CRYPT_OK
    /\ Generated(key[res.b]) /\ key[res.b].prime > 255
    /\ key[res.a].y = key[res.b].y

\* C6: dh_decrypt_key, with a generated key K and a buffer that holds the
\* plaintext, of the ciphertext dh_encrypt_key returned for K, a hash and a
\* plaintext P no longer than the digest, returns CRYPT_OK with the length
\* and the bytes of P, whatever ephemeral key the PRNG gave.
C6_EncryptDecryptRoundTrip ==
    ( /\ res.op = "dh_decrypt_key" /\ res.from = "dh_encrypt_key"
      /\ res.fault = "none" /\ Generated(key[res.a])
      /\ res.cap >= Len(res.msg) )
    => /\ res.err = CRYPT_OK
       /\ res.outlen = Len(res.msg)
       /\ Output(res) = res.msg

\* a plaintext of two bytes, as long as the digest of its hash, came back
\* from a ciphertext for a key of the 2-byte group
C6_Witness ==
    /\ res.op = "dh_decrypt_key" /\ res.from = "dh_encrypt_key"
    /\ res.err = CRYPT_OK /\ Generated(key[res.a])
    /\ key[res.a].prime > 255
    /\ Output(res) = <<255, 1>>
    /\ hash_descriptor[res.hash].hashsize = 2

RECURSIVE PowModWide(_, _, _)
\* b^e mod m for a wide e: (b^(e div 16))^16 * b^(e mod 16)
PowModWide(b, e, m) ==
    IF e < 16 THEN PowMod(b, e, m)
    ELSE (PowMod(PowModWide(b, e \div 16, m), 16, m) * PowMod(b, e % 16, m)) % m

IsPrime(n) == n > 1 /\ \A q \in 2..(n - 1) : n % q # 0

\* p is a safe prime and g has order (p-1)/2
SafePrimeGroup(k) ==
    /\ IsPrime(k.prime) /\ IsPrime((k.prime - 1) \div 2)
    /\ k.base % k.prime # 1
    /\ PowModWide(k.base, (k.prime - 1) \div 2, k.prime) = 1

\* the last call was dh_verify_hash of the whole signature that
\* dh_sign_hash had just returned for the digest res.msg0 and the same key
VerifiedSigned == res.op = "dh_verify_hash" /\ res.from = "dh_sign_hash"

\* C7: for a private key of a group where p is a safe prime and g has
\* order (p-1)/2, dh_verify_hash of a signature dh_sign_hash returned, with
\* the digest that was signed and the same key, returns CRYPT_OK and stat 1.
C7_SignVerifySound ==
    ( /\ VerifiedSigned /\ res.msg = res.msg0 /\ res.fault = "none"
      /\ SafePrimeGroup(key[res.a]) )
    => res.err = CRYPT_OK /\ res.stat = 1

\* a signature made with a key of the 2-byte group over a digest of two
\* bytes was verified
C7_Witness ==
    /\ VerifiedSigned /\ res.msg = res.msg0 /\ res.stat = 1
    /\ SafePrimeGroup(key[res.a]) /\ key[res.a].prime > 255
    /\ Len(res.msg) = 2

C9_VerifyStat ==
    res.op = "dh_verify_hash" =>
        LET k == key[res.a]
            dec == der_decode_sequence(res.inp, Len(res.inp),
                       << [type |-> LTC_ASN1_INTEGER, size |-> 1],
                          [type |-> LTC_ASN1_INTEGER, size |-> 1] >>)
            a == dec.items[1].data
            b == dec.items[2].data
            M == FromBytes(res.msg)
            eq == (PowModWide(k.y, a, k.prime) * PowModWide(a, b, k.prime))
                      % k.prime = PowModWide(k.base, M, k.prime)
        IN  /\ res.fault = "none" =>
                  (res.stat = 1 <=> (dec.err = CRYPT_OK /\ eq))
            /\ res.stat = 1 => (dec.err = CRYPT_OK /\ eq)
            /\ (dec.err = CRYPT_OK /\ ~eq /\ res.fault = "none")
                  => (res.err = CRYPT_OK /\ res.stat = 0)
            /\ res.err # CRYPT_OK => res.stat = 0

\* a signature built by hand, which dh_sign_hash did not return, satisfied
\* the equation and got stat 1
C9_Witness ==
    /\ res.op = "dh_verify_hash" /\ res.from = "" /\ res.stat = 1
    /\ res.err = CRYPT_OK

\* C10: a key a generator returned with CRYPT_OK is private, has
\* y = g^x mod p and 1 < y < p-1, whatever the PRNG returned before.
C10_GeneratedKeyValid ==
    (res.op \in {"dh_make_key", "dh_make_key_ex", "dh_make_key_dhparam"}
       /\ res.err = CRYPT_OK)
    => LET k == key[res.a]
       IN  /\ k.st = "ok" /\ k.type = PK_PRIVATE
           /\ k.y = PowMod(k.base, k.x, k.prime)
           /\ 1 < k.y /\ k.y < k.prime - 1

\* a generator returned a key after the PRNG had returned MaxDraws values
\* it rejected
C10_Witness ==
    /\ res.op = "dh_make_key_dhparam" /\ res.err = CRYPT_OK
    /\ res.n = MaxDraws + 1

(***************************************************************************)
(* C11: every key a constructor returned holds a value y with              *)
(* 1 < y < p-1 and, when it is private, y = g^x mod p.                     *)
(***************************************************************************)
Constructors == {"dh_make_key", "dh_make_key_ex", "dh_make_key_dhparam",
                 "dh_import", "dh_import_raw"}

\* C11: whenever a constructor (a generator, dh_import or dh_import_raw of
\* either kind) has returned CRYPT_OK, the key it built has 1 < y < p-1,
\* and y = g^x mod p when the key is private; so an input that makes
\* y <= 1 or y >= p-1 is not answered with CRYPT_OK
C11_ConstructedKeyValid ==
    (res.op \in Constructors /\ res.err = CRYPT_OK) =>
        LET k == key[res.a]
        IN  /\ k.st = "ok"
            /\ 1 < k.y /\ k.y < k.prime - 1
            /\ k.type = PK_PRIVATE => k.y = PowMod(k.base, k.x, k.prime)

(***************************************************************************)
(* C12: the key-size policy.                                               *)
(***************************************************************************)
\* the byte lengths of the primes of the catalog groups of 1536, 2048,
\* 3072, 4096, 6144 and 8192 bits
CatalogSizes == {192, 256, 384, 512, 768, 1024}

\* the table of the policy: the exponent length for a group size n
PolicyTable(n) ==
    CASE n <= 0 -> 0
      [] n \in 1..192 -> 30
      [] n \in 193..256 -> 40
      [] n \in 257..384 -> 52
      [] n \in 385..512 -> 60
      [] n \in 513..768 -> 67
      [] n \in 769..1024 -> 77
      [] n > 1024 -> 0

\* C12: dh_groupsize_to_keysize(n) is the entry of the policy table for
\* every n; on 1..1024 it does not decrease as n grows; and it is smaller
\* than n when n is the size of a catalog group
C12_KeysizePolicy ==
    res.op = "dh_groupsize_to_keysize" =>
        /\ res.outlen = PolicyTable(res.n)
        /\ res.n \in 1..1024 =>
              \A m \in 1..res.n : dh_groupsize_to_keysize(m) <= res.outlen
        /\ res.n \in CatalogSizes => res.outlen < res.n

\* the policy was applied to the size of the largest catalog group
C12_Witness ==
    /\ res.op = "dh_groupsize_to_keysize"
    /\ res.n = 1024 /\ res.outlen = 77

(***************************************************************************)
(* C13: the catalog lookup of dh_make_key.                                 *)
(***************************************************************************)
\* the catalog entries whose size is at least n
Fitting(n) ==
    { i \in 1..Len(ltc_dh_sets) :
        ltc_dh_sets[i].size # 0 /\ ltc_dh_sets[i].size >= n }

\* the entry of the smallest size among those of Fitting(n)
SmallestFitting(n) ==
    CHOOSE i \in Fitting(n) :
        \A j \in Fitting(n) : ltc_dh_sets[i].size <= ltc_dh_sets[j].size

\* C13: dh_make_key asked for the group size res.cap builds its key in the
\* catalog group of the smallest size >= res.cap, so the prime of the key
\* has res.cap bytes when res.cap is a catalog size; when no catalog group
\* is that large it returns CRYPT_INVALID_KEYSIZE after no PRNG read and
\* leaves no key behind
C13_CatalogLookup ==
    res.op = "dh_make_key" =>
        LET n == res.cap
            k == key[res.a]
        IN  IF Fitting(n) = {}
            THEN /\ res.err = CRYPT_INVALID_KEYSIZE
                 /\ res.n = 0
                 /\ k.st # "ok"
                 /\ \A h \in {"prime", "base", "x", "y"} : k[h] < 0
            ELSE /\ res.err # CRYPT_INVALID_KEYSIZE
                 /\ res.err = CRYPT_OK =>
                       /\ k.prime = mp_read_radix(ltc_dh_sets[SmallestFitting(n)].prime)
                       /\ k.base = mp_read_radix(ltc_dh_sets[SmallestFitting(n)].base)
                       /\ (\E i \in Fitting(n) : ltc_dh_sets[i].size = n) =>
                             mp_unsigned_bin_size(k.prime) = n

\* dh_make_key asked for the size of the second catalog group returned a
\* key of that group
C13_Witness ==
    /\ res.op = "dh_make_key" /\ res.err = CRYPT_OK
    /\ res.cap = ltc_dh_sets[2].size
    /\ key[res.a].prime = mp_read_radix(ltc_dh_sets[2].prime)

(***************************************************************************)
(* C14: a constructor that fails leaves no key behind.                     *)
(***************************************************************************)
Handles == {"prime", "base", "x", "y"}

\* C14: whenever a constructor has returned an error, the key object holds
\* no key: none of its four handles still holds a bignum, none was passed
\* to mp_clear while it held none (never acquired, or released before),
\* and the key is not marked private
C14_FailedConstructorClean ==
    (res.op \in Constructors /\ res.err # CRYPT_OK) =>
        LET k == key[res.a]
        IN  /\ k.st # "ok"
            /\ \A h \in Handles : k[h] < 0 /\ k[h] # Miscleared
            /\ k.type # PK_PRIVATE

(***************************************************************************)
(* C19: dh_free releases every handle once.                                *)
(***************************************************************************)
\* how many times dh_free passed the handle h to mp_clear
Releases(rel, h) == Cardinality({ i \in 1..Len(rel) : rel[i] = h })

\* C19: a dh_free of a key a constructor returned, or of a key dh_free has
\* freed, passes each handle that holds a bignum to mp_clear once and no
\* other handle, and leaves the four handles NULL; so the second dh_free
\* of a key releases nothing, and the dh_free of a public key of
\* dh_import_raw, whose x is NULL, releases its three other handles
C19_FreeReleasesOnce ==
    [][ \A s \in Slots :
          (res'.op = "dh_free" /\ res'.a = s) =>
              /\ \A h \in Handles : key'[s][h] = NULL
              /\ \A h \in Handles :
                    Releases(res'.rel, h) = IF key[s][h] >= 0 THEN 1 ELSE 0
      ]_vars

\* dh_free has freed a public key of dh_import_raw
C19_Witness ==
    /\ res.op = "dh_free"
    /\ res.rel = <<"base", "prime", "y">>
    /\ \A h \in Handles : key[res.a][h] = NULL

(***************************************************************************)
(* C15: dh_decrypt_key refuses a degenerate ephemeral public value.        *)
(***************************************************************************)
\* the ciphertext in is well formed and carries the ephemeral value y
Carries(in, y) ==
    \E hash \in DOMAIN hash_descriptor :
        \E c \in {<<7>>} : in = Ciphertext(hash, y, c)

\* C15: dh_decrypt_key of a well-formed ciphertext whose ephemeral public
\* value is 0, 1, p-1 or any value >= p-1 returns an error,
\* CRYPT_INVALID_ARG when no backend call fails, and leaves the plaintext
\* buffer and the out-length as they were; with a key that is not private
\* it returns CRYPT_PK_NOT_PRIVATE whatever the input is
C15_BadEphemeralRejected ==
    res.op = "dh_decrypt_key" =>
        LET k == key[res.a]
        IN  /\ k.type # PK_PRIVATE =>
                  /\ res.err = CRYPT_PK_NOT_PRIVATE
                  /\ res.out = Buffer(res.cap) /\ res.outlen = res.cap
            /\ \A y \in CraftedYs :
                  (/\ k.type = PK_PRIVATE
                   /\ Carries(res.inp, y)
                   /\ (y <= 1 \/ y >= k.prime - 1)) =>
                      /\ res.err # CRYPT_OK
                      /\ res.fault = "none" => res.err = CRYPT_INVALID_ARG
                      /\ res.out = Buffer(res.cap) /\ res.outlen = res.cap

\* dh_decrypt_key with a private key has refused a ciphertext whose
\* ephemeral value is p-1
C15_Witness ==
    /\ res.op = "dh_decrypt_key" /\ res.fault = "none"
    /\ key[res.a].type = PK_PRIVATE
    /\ Carries(res.inp, key[res.a].prime - 1)
    /\ res.cap = MaxCap
    /\ res.err = CRYPT_INVALID_ARG

(***************************************************************************)
(* C18: the generation loop.                                               *)
(***************************************************************************)
Generators == {"dh_make_key", "dh_make_key_ex", "dh_make_key_dhparam"}

\* the candidate of key k is one the loop accepts
Accepted(k) == 1 < k.y /\ k.y < k.prime - 1

\* a generator has returned from its loop
Returned == call.op = "none" /\ res.op \in Generators /\ res.n >= 1

\* C18, the returns: a short read ends the loop with
\* CRYPT_ERROR_READPRNG and no key; a read of a candidate, when no backend
\* call fails, ends it only with CRYPT_OK and that candidate, an accepted
\* one, as the key
C18_Returns ==
    Returned =>
        LET k == key[res.a]
        IN  /\ res.draw = ShortRead =>
                  res.err = CRYPT_ERROR_READPRNG /\ k.st # "ok"
            /\ (res.draw # ShortRead /\ res.fault = "none") =>
                  res.err = CRYPT_OK
            /\ res.err = CRYPT_OK =>
                  /\ k.st = "ok" /\ k.x = res.draw /\ Accepted(k)
                  /\ k.y = PowMod(k.base, k.x, k.prime)

\* C18, the iterations: every iteration makes one PRNG read; the loop goes
\* on only after a read of a whole candidate that is rejected (or that
\* dh_check_pubkey could not examine), so it stops at the first accepted
\* candidate and at the first short read
C18_Iteration ==
    call.op \in Generators =>
        /\ call'.op \in Generators =>
              /\ call'.n = call.n + 1
              /\ key'[call.s].x = res'.draw /\ res'.draw \in 0..MaxX
              /\ key'[call.s].y =
                    PowMod(key[call.s].base, res'.draw, key[call.s].prime)
              /\ ~Accepted(key'[call.s]) \/ res'.fault = "check_mp_init"
        /\ call'.op = "none" => res'.n = call.n + 1

\* C18: a generation loop under a fair PRNG terminates: it returns, and
\* with CRYPT_OK unless a read was short or a backend call failed; each
\* rejected candidate costs one further PRNG read, the loop stops at the
\* first accepted candidate, and a short read ends it at once with
\* CRYPT_ERROR_READPRNG
C18_LoopTerminates ==
    /\ [](C18_Returns)
    /\ [][C18_Iteration]_vars
    /\ (call.op \in Generators) ~> Returned

\* dh_make_key has returned a key after MaxDraws rejected candidates
C18_Witness ==
    /\ Returned /\ res.op = "dh_make_key" /\ res.err = CRYPT_OK
    /\ res.n = MaxDraws + 1 /\ res.fault = "none"

\* the states a call may leave a buffer or temporary bignum of its own in:
\* never reached, not obtained and not touched, or released once
ReleasedOnce == {"unallocated", "null", "freed", "freed_secret"}

\* C16: when a fallible operation returns, on success or with an error and
\* whichever of its allocations failed, each heap buffer and temporary
\* bignum of the call has been released exactly once if it was allocated
\* and has been neither used nor released if it was not: none is left
\* allocated, released twice, released without having been allocated, or
\* written through while NULL.
C16_ReleasedExactlyOnce ==
    \A item \in res.heap : item[2] \in ReleasedOnce

\* C17: no buffer of a returned call was released while it still held PRNG
\* output, a shared secret or a key derived from one: each such buffer is
\* zeroed before its release.
C17_ZeroedBeforeRelease ==
    \A item \in res.heap : item[2] # "freed_secret"

====
